---------------------------- MODULE Spec2Model ----------------------------
(***************************************************************************)
(* Knowledge-graph lifecycle of project-quality-hub: the Builder           *)
(* (core/project_mind.py), the Memory Manager (core/project_memory.py),    *)
(* the Multi-Branch Manager (core/multi_branch.py) and the Incremental     *)
(* Updater (core/smart_incremental_update.py).                             *)
(*                                                                         *)
(* Abstractions.  Paths, file contents and commit hashes range over small  *)
(* finite sets.  md5 is modelled as an injective tagging of its input      *)
(* string.  Timestamps of the process-local cache are ages in whole hours. *)
(* A file's modification time is a per-path counter that every write to    *)
(* the file increases.  Errors of the environment (sqlite, the filesystem) *)
(* are injected as a fault naming the step that raises.                    *)
(***************************************************************************)
EXTENDS Integers, Sequences, FiniteSets, TLC

(***************************************************************************)
(* Bounds of the model.                                                    *)
(***************************************************************************)
MaxEdits == 1
MaxFaults == 1
MaxCalls == 2
MaxEvents == 2

(***************************************************************************)
(* The project universe.                                                   *)
(***************************************************************************)
ProjectRoot == "R"
Paths == {"a.py", "c.js"}
Stems == {"a", "b", "c"}
Absent == "absent"
Branches == {"main", "dev"}
Managers == {"branch", "branch2", "updater", "global"}

\* project_mind.py:103-116, in dictionary order
SupportedExtensions ==
  <<".py", ".js", ".jsx", ".ts", ".tsx", ".java", ".go", ".rs", ".c", ".cpp", ".h", ".hpp">>

ExtensionSet == {SupportedExtensions[i] : i \in 1..Len(SupportedExtensions)}

Suffix(p) ==
  IF \E s \in Stems, e \in ExtensionSet : s \o e = p
  THEN CHOOSE e \in ExtensionSet : \E s \in Stems : s \o e = p
  ELSE ""

Language(ext) ==
  CASE ext = ".py" -> "python"
    [] ext \in {".js", ".jsx"} -> "javascript"
    [] ext \in {".ts", ".tsx"} -> "typescript"
    [] OTHER -> "other"

(***************************************************************************)
(* File contents.  "foo" is `def foo(): pass`, "foobar" defines foo and    *)
(* bar, "jsimp" is `import x from './a'`, "from_a" is `from a import foo`. *)
(***************************************************************************)
ContentsOf(p) ==
  CASE p = "a.py" -> {"foo", "foobar"}
    [] p = "c.js" -> {"jsimp"}
    [] p = "b.py" -> {"from_a"}
    [] OTHER -> {}

DeclaredNames(c) ==
  CASE c = "foo" -> {"foo"}
    [] c = "foobar" -> {"foo", "bar"}
    [] OTHER -> {}

\* A raw import string: its relative-path marker and the rest.
ImportStrings(c) ==
  CASE c = "jsimp" -> {[marker |-> "./", rest |-> "a"]}
    [] c = "from_a" -> {[marker |-> "", rest |-> "a"]}
    [] OTHER -> {}

ContentHash(c) == "md5:" \o c

Md5(s) == "md5:" \o s

(***************************************************************************)
(* Commit hashes: nine characters, of which the version stamp keeps eight. *)
(***************************************************************************)
CommitPrefixLen == 8
Commit1 == <<1, 1, 1, 1, 1, 1, 1, 1, 1>>
Commit1b == <<1, 1, 1, 1, 1, 1, 1, 1, 2>>
Commit2 == <<2, 2, 2, 2, 2, 2, 2, 2, 2>>
History == <<Commit1, Commit1b, Commit2>>
Commits == {History[i] : i \in 1..Len(History)}

VersionString(branch_name, commit_hash) ==
  <<branch_name, "#", SubSeq(commit_hash, 1, CommitPrefixLen)>>

DefaultVersion == <<"0.0.0", "", <<>>>>

(***************************************************************************)
(* Knowledge graph values.                                                 *)
(***************************************************************************)
NoGraph ==
  [tag |-> "none", project_root |-> "", files |-> <<>>, entities |-> {},
   edges |-> {}, version |-> DefaultVersion]

CorruptBlob == [NoGraph EXCEPT !.tag = "corrupt"]

FileKeys(kg) == DOMAIN kg.files

FileNodeId(p) == [file |-> p, name |-> ""]
EntityNodeId(p, n) == [file |-> p, name |-> n]

\* project_mind.py _analyze_single_file with _analyze_python_file / _analyze_js_file
AnalyzeSingleFile(disk, mtime, p) ==
  [file_hash |-> ContentHash(disk[p]),
   last_modified |-> mtime[p],
   imports |-> IF Language(Suffix(p)) \in {"python", "javascript", "typescript"}
               THEN ImportStrings(disk[p]) ELSE {},
   entities |-> IF Language(Suffix(p)) \in {"python", "javascript", "typescript"}
                THEN DeclaredNames(disk[p]) ELSE {}]

\* project_mind.py _scan_and_analyze_files
ScanAndAnalyzeFiles(disk, mtime) ==
  LET found == {p \in DOMAIN disk : disk[p] # Absent /\ Suffix(p) \in ExtensionSet}
  IN  [p \in found |-> AnalyzeSingleFile(disk, mtime, p)]

\* project_mind.py _resolve_import: the first supported extension whose file exists
ResolveImport(disk, imp) ==
  IF imp.marker \in {"./", "."}
  THEN LET hits == {i \in 1..Len(SupportedExtensions) :
                      /\ (imp.rest \o SupportedExtensions[i]) \in DOMAIN disk
                      /\ disk[imp.rest \o SupportedExtensions[i]] # Absent}
       IN  IF hits = {} THEN ""
           ELSE imp.rest \o SupportedExtensions[CHOOSE i \in hits : \A j \in hits : i <= j]
  ELSE ""

\* project_mind.py _build_dependency_graph: edges are added to the graph, never removed
BuildDependencyGraph(disk, files, edges) ==
  edges
  \cup {[from |-> FileNodeId(p), to |-> FileNodeId(ResolveImport(disk, imp)),
         relation_type |-> "imports"] :
          <<p, imp>> \in {<<q, i>> \in (DOMAIN files) \X UNION {files[q].imports : q \in DOMAIN files} :
                            /\ i \in files[q].imports
                            /\ ResolveImport(disk, i) \in DOMAIN files}}
  \cup {[from |-> FileNodeId(e[1]), to |-> EntityNodeId(e[1], e[2]),
         relation_type |-> "contains"] :
          e \in {<<q, n>> \in (DOMAIN files) \X UNION {files[q].entities : q \in DOMAIN files} :
                   n \in files[q].entities}}

EntityKeysOf(files) ==
  {<<q, n>> \in (DOMAIN files) \X UNION {files[q].entities : q \in DOMAIN files} :
     n \in files[q].entities}

\* lines 526-528 and 535-537, in tenths
Strength(relation_type) == IF relation_type = "imports" THEN 8 ELSE 10

\* project_mind.py analyze_project
AnalyzeProject(disk, mtime) ==
  LET files == ScanAndAnalyzeFiles(disk, mtime)
  IN  [tag |-> "graph", project_root |-> ProjectRoot, files |-> files,
       entities |-> EntityKeysOf(files),
       edges |-> BuildDependencyGraph(disk, files, {}),
       version |-> DefaultVersion]


(***************************************************************************)
(* The persisted layout (one per storage directory, shared by every        *)
(* manager instance) and a manager instance's process-local state.         *)
(***************************************************************************)
ProjectKey(project_root) == project_root
BranchKey(project_root, branch_name) == project_root \o "#" \o branch_name

\* other projects kept in the same storage directory; none of them holds a
\* file with a supported extension
OtherRoots == {"P1", "P2", "P3", "P4", "P5"}
Roots == {ProjectRoot} \cup OtherRoots

Ids ==
  {Md5(ProjectKey(r)) : r \in Roots} \cup {Md5(BranchKey(ProjectRoot, b)) : b \in Branches}

\* project_memory.py:42-43
MaxCacheSize == 5
CacheTtl == 2

Original == "original"

EmptyStore ==
  [projects |-> {}, files |-> {}, entities |-> {}, dependencies |-> {},
   snap |-> [i \in Ids |-> NoGraph], branch_contexts |-> {}]

NewManager ==
  [cache |-> [i \in Ids |-> NoGraph], age |-> [i \in Ids |-> 0],
   get_project_id |-> Original]

\* project_memory.py get_project_id, and the lambda multi_branch.py binds over it
GetProjectId(M, project_root) ==
  IF M.get_project_id = Original
  THEN Md5(ProjectKey(project_root))
  ELSE Md5(BranchKey(ProjectRoot, M.get_project_id))

\* multi_branch.py _generate_branch_project_id
GenerateBranchProjectId(branch_name) == Md5(BranchKey(ProjectRoot, branch_name))

Faults ==
  {"none", "connect", "context", "files", "entities", "dependencies",
   "snapshot_open", "snapshot_dump", "commit"}

\* INSERT OR REPLACE INTO projects: id is the primary key, project_root is UNIQUE
SaveProjectContext(S, pid, kg) ==
  [S EXCEPT !.projects =
     {r \in S.projects : r.id # pid /\ r.project_root # kg.project_root}
     \cup {[id |-> pid, project_root |-> kg.project_root, version |-> kg.version,
            last_accessed |-> "insert"]}]

SaveFiles(S, pid, kg) ==
  [S EXCEPT !.files =
     {r \in S.files : r.project_id # pid}
     \cup {[project_id |-> pid, file_path |-> p, file_hash |-> kg.files[p].file_hash,
            last_modified |-> kg.files[p].last_modified] : p \in DOMAIN kg.files}]

FileIdMap(S, pid) == {r.file_path : r \in {x \in S.files : x.project_id = pid}}

SaveEntities(S, pid, kg) ==
  [S EXCEPT !.entities =
     {r \in S.entities : r.project_id # pid}
     \cup {[project_id |-> pid, file_path |-> e[1], name |-> e[2]] :
             e \in {k \in kg.entities : k[1] \in FileIdMap(S, pid)}}]

\* an edge is written only when both of its ends are keys of the file-id map
SaveDependencies(S, pid, kg) ==
  [S EXCEPT !.dependencies =
     {r \in S.dependencies : r.project_id # pid}
     \cup {[project_id |-> pid, from_file |-> d.from.file, to_file |-> d.to.file,
            relation_type |-> d.relation_type] :
             d \in {x \in kg.edges : /\ x.from.name = "" /\ x.from.file \in FileIdMap(S, pid)
                                     /\ x.to.name = "" /\ x.to.file \in FileIdMap(S, pid)}}]

RelationalRows(S) == [projects |-> S.projects, files |-> S.files,
                      entities |-> S.entities, dependencies |-> S.dependencies]

\* save_project as it would be without the ROLLBACK of its except clause
SaveProjectNoRollback(S, M, kg, fault) ==
  LET pid == GetProjectId(M, kg.project_root)
      t1 == SaveProjectContext(S, pid, kg)
      t2 == SaveFiles(t1, pid, kg)
      t3 == SaveEntities(t2, pid, kg)
      t4 == SaveDependencies(t3, pid, kg)
  IN  CASE fault = "none" ->
             [ok |-> TRUE, S |-> [t4 EXCEPT !.snap[pid] = kg],
              M |-> [M EXCEPT !.cache[pid] = kg, !.age[pid] = 0]]
        [] fault = "files" -> [ok |-> FALSE, S |-> t1, M |-> M]
        [] fault = "entities" -> [ok |-> FALSE, S |-> t2, M |-> M]
        [] fault = "dependencies" -> [ok |-> FALSE, S |-> t3, M |-> M]
        [] fault = "snapshot_open" -> [ok |-> FALSE, S |-> t4, M |-> M]
        [] fault = "snapshot_dump" ->
             [ok |-> FALSE, S |-> [t4 EXCEPT !.snap[pid] = CorruptBlob], M |-> M]
        [] fault = "commit" ->
             [ok |-> FALSE, S |-> [t4 EXCEPT !.snap[pid] = kg], M |-> M]
        [] OTHER -> [ok |-> FALSE, S |-> S, M |-> M]

\* project_memory.py save_project: the statements up to the one that raises run,
\* then ROLLBACK restores the rows; the snapshot file is outside the transaction.
SaveProject(S, M, kg, fault) ==
  LET pid == GetProjectId(M, kg.project_root)
      t1 == SaveProjectContext(S, pid, kg)
      t2 == SaveFiles(t1, pid, kg)
      t3 == SaveEntities(t2, pid, kg)
      t4 == SaveDependencies(t3, pid, kg)
  IN  CASE fault = "none" ->
             [ok |-> TRUE, S |-> [t4 EXCEPT !.snap[pid] = kg],
              M |-> [M EXCEPT !.cache[pid] = kg, !.age[pid] = 0]]
        [] fault = "snapshot_dump" ->
             [ok |-> FALSE, S |-> [S EXCEPT !.snap[pid] = CorruptBlob], M |-> M]
        [] fault = "commit" ->
             [ok |-> FALSE, S |-> [S EXCEPT !.snap[pid] = kg], M |-> M]
        [] OTHER -> [ok |-> FALSE, S |-> S, M |-> M]

\* project_memory.py _is_cache_valid
IsCacheValid(kg, disk, mtime) ==
  \A p \in DOMAIN kg.files :
    disk[p] # Absent => ~(mtime[p] > kg.files[p].last_modified)

\* project_memory.py _rebuild_files_and_entities and _rebuild_dependencies
RebuildFromRows(S, pid, project_root) ==
  LET frows == {r \in S.files : r.project_id = pid}
      fkeys == {r.file_path : r \in frows}
      erows == {r \in S.entities : r.project_id = pid /\ r.file_path \in fkeys}
      drows == {r \in S.dependencies :
                  r.project_id = pid /\ r.from_file \in fkeys /\ r.to_file \in fkeys}
      prow == CHOOSE r \in S.projects : r.id = pid
  IN  [tag |-> "graph", project_root |-> project_root,
       files |-> [p \in fkeys |->
                    LET r == CHOOSE x \in frows : x.file_path = p
                    IN  [file_hash |-> r.file_hash, last_modified |-> r.last_modified,
                         imports |-> {},
                         entities |-> {e.name : e \in {x \in erows : x.file_path = p}}]],
       entities |-> {<<e.file_path, e.name>> : e \in erows},
       edges |-> {[from |-> FileNodeId(d.from_file), to |-> FileNodeId(d.to_file),
                   relation_type |-> d.relation_type] : d \in drows},
       version |-> prow.version]

\* project_memory.py _load_from_database.  _rebuild_project_context imports the
\* top-level module `project_mind`; when that module cannot be imported the
\* exception is caught and the load returns None before last_accessed is updated.
LoadFromDatabase(S, pid, project_root, importable) ==
  IF ~(\E r \in S.projects : r.id = pid) \/ ~importable
  THEN [kg |-> NoGraph, S |-> S]
  ELSE [kg |-> RebuildFromRows(S, pid, project_root),
        S |-> [S EXCEPT !.projects =
                 {IF r.id = pid THEN [r EXCEPT !.last_accessed = "load"] ELSE r :
                    r \in S.projects}]]

CacheHit(M, pid, use_cache) ==
  use_cache /\ M.cache[pid].tag = "graph" /\ M.age[pid] < CacheTtl

SnapshotHit(S, pid, disk, mtime) ==
  S.snap[pid].tag = "graph" /\ IsCacheValid(S.snap[pid], disk, mtime)

\* project_memory.py load_project
LoadProject(S, M, project_root, use_cache, disk, mtime, importable) ==
  LET pid == GetProjectId(M, project_root)
      fromdb == LoadFromDatabase(S, pid, project_root, importable)
  IN  IF CacheHit(M, pid, use_cache)
      THEN [kg |-> M.cache[pid], src |-> "cache", S |-> S, M |-> M]
      ELSE IF SnapshotHit(S, pid, disk, mtime)
      THEN [kg |-> S.snap[pid], src |-> "snapshot", S |-> S,
            M |-> [M EXCEPT !.cache[pid] = S.snap[pid], !.age[pid] = 0]]
      ELSE [kg |-> fromdb.kg,
            src |-> IF fromdb.kg.tag = "graph" THEN "database" ELSE "absent",
            S |-> fromdb.S, M |-> M]


(***************************************************************************)
(* The Multi-Branch Manager.                                               *)
(***************************************************************************)
\* _is_project_up_to_date as it would be if it compared the whole commit hash
IsProjectUpToDateFullHash(kg, branch_name, commit_hash) ==
  kg.version = <<branch_name, "#", commit_hash>>

\* multi_branch.py _is_project_up_to_date
IsProjectUpToDate(kg, branch_name, commit_hash) ==
  kg.version = VersionString(branch_name, commit_hash)

\* multi_branch.py _load_branch_project: get_project_id is rebound to the branch
\* identity for the load and then set back to the binding found on entry
LoadBranchProject(S, M, branch_name, disk, mtime, importable) ==
  LET r == LoadProject(S, [M EXCEPT !.get_project_id = branch_name], ProjectRoot,
                       TRUE, disk, mtime, importable)
  IN  [kg |-> r.kg, src |-> r.src, S |-> r.S,
       M |-> [r.M EXCEPT !.get_project_id = M.get_project_id]]

\* lines 231-243: the entry of the branch is set in the map read from the file
MergeBranchContext(contexts, branch_name, commit_hash) ==
  {c \in contexts : ~(c.project_root = ProjectRoot /\ c.branch_name = branch_name)}
  \cup {[project_root |-> ProjectRoot, branch_name |-> branch_name,
         commit_hash |-> commit_hash]}

\* multi_branch.py _save_branch_context: read, merge and write of the JSON side-file
SaveBranchContext(S, branch_name, commit_hash) ==
  [S EXCEPT !.branch_contexts =
     MergeBranchContext(S.branch_contexts, branch_name, commit_hash)]

\* multi_branch.py _save_branch_project.  When writing the side-file raises, the
\* except clause returns False and the rebinding of get_project_id is not undone.
SaveBranchProject(S, M, branch_name, kg, commit_hash, fault) ==
  LET r == SaveProject(S, [M EXCEPT !.get_project_id = branch_name], kg,
                       IF fault = "side_file" THEN "none" ELSE fault)
  IN  IF r.ok /\ fault = "side_file"
      THEN [ok |-> FALSE, S |-> r.S, M |-> r.M]
      ELSE [ok |-> r.ok,
            S |-> IF r.ok THEN SaveBranchContext(r.S, branch_name, commit_hash) ELSE r.S,
            M |-> [r.M EXCEPT !.get_project_id = M.get_project_id]]

\* multi_branch.py analyze_branch_project
AnalyzeBranchProject(S, M, branch_name, force_update, disk, mtime, commit_hash, importable, fault) ==
  LET ld == IF force_update
            THEN [kg |-> NoGraph, src |-> "skipped", S |-> S, M |-> M]
            ELSE LoadBranchProject(S, M, branch_name, disk, mtime, importable)
      fresh == /\ ~force_update
               /\ ld.kg.tag = "graph"
               /\ IsProjectUpToDate(ld.kg, branch_name, commit_hash)
      built == [AnalyzeProject(disk, mtime) EXCEPT
                  !.version = VersionString(branch_name, commit_hash)]
      sv == SaveBranchProject(ld.S, ld.M, branch_name, built, commit_hash, fault)
  IN  IF fresh
      THEN [status |-> "up_to_date", S |-> ld.S, M |-> ld.M, builder |-> FALSE,
            kg |-> ld.kg, src |-> ld.src]
      ELSE [status |-> IF sv.ok THEN "analyzed" ELSE "failed", S |-> sv.S, M |-> sv.M,
            builder |-> TRUE, kg |-> built, src |-> ld.src]

\* an exception or error message: what raised and at which step; none here
NoError == [cls |-> "", step |-> ""]

\* the branch refs of the repository and the commit each of them points to
Refs == Branches
Targets == Branches \cup {"gone"}
TipOf(b) == IF b = "main" THEN Commit1 ELSE Commit2

\* lines 300-308: `git show-ref refs/heads/<target>` returns non-zero
RefExists(target) == target \in Refs

\* switch_to_branch_analysis as it would be if it did not check the checkout
CheckoutNeverFails(fault) == FALSE

\* lines 311-315: `git checkout` with check=True raises CalledProcessError
CheckoutFails(fault) == fault = "checkout"

\* multi_branch.py switch_to_branch_analysis.  The fault "no_git" is a git
\* executable that cannot be run: subprocess.run raises FileNotFoundError,
\* which the method does not catch.
SwitchToBranchAnalysis(S, M, current, commit_hash, target, disk, mtime, importable, fault) ==
  LET r == AnalyzeBranchProject(S, M, target, TRUE, disk, mtime, TipOf(target), importable,
                                IF fault = "commit" THEN fault ELSE "none")
      stay == [raised |-> FALSE, status |-> "error", error |-> NoError,
               current_branch |-> current, head |-> commit_hash, builder |-> FALSE,
               kg |-> NoGraph, S |-> S, M |-> M]
  IN  IF fault = "no_git"
      THEN [stay EXCEPT !.raised = TRUE, !.status = "",
                        !.error = [cls |-> "FileNotFoundError", step |-> "show-ref"]]
      ELSE IF ~RefExists(target)
      THEN [stay EXCEPT !.error = [cls |-> "message", step |-> "show-ref"]]
      ELSE IF CheckoutFails(fault)
      THEN [stay EXCEPT !.error = [cls |-> "message", step |-> "checkout"]]
      ELSE [raised |-> FALSE, status |-> r.status, error |-> NoError,
            current_branch |-> target, head |-> TipOf(target), builder |-> r.builder,
            kg |-> r.kg, S |-> r.S, M |-> r.M]

\* compare_branches as it would be if `added` were the symmetric difference
AddedOrRemoved(X1, X2) == (X2 \ X1) \cup (X1 \ X2)

\* lines 344 and 352
Added(X1, X2) == X2 \ X1

\* lines 345 and 353
Removed(X1, X2) == X1 \ X2

NoDiff ==
  [file_added |-> {}, file_removed |-> {}, modified |-> 0,
   entity_added |-> {}, entity_removed |-> {}]

\* multi_branch.py compare_branches
CompareBranches(S, M, branch1, branch2, disk, mtime, importable) ==
  LET l1 == LoadBranchProject(S, M, branch1, disk, mtime, importable)
      l2 == LoadBranchProject(l1.S, l1.M, branch2, disk, mtime, importable)
      files1 == FileKeys(l1.kg)
      files2 == FileKeys(l2.kg)
  IN  IF l1.kg.tag # "graph" \/ l2.kg.tag # "graph"
      THEN [status |-> "error",
            loaded |-> <<l1.kg.tag = "graph", l2.kg.tag = "graph">>,
            diff |-> NoDiff, S |-> l2.S, M |-> l2.M]
      ELSE [status |-> "success", loaded |-> <<TRUE, TRUE>>,
            diff |-> [file_added |-> Added(files1, files2),
                      file_removed |-> Removed(files1, files2),
                      modified |-> Cardinality(files1 \cap files2),
                      entity_added |-> Added(l1.kg.entities, l2.kg.entities),
                      entity_removed |-> Removed(l1.kg.entities, l2.kg.entities)],
            S |-> l2.S, M |-> l2.M]

(***************************************************************************)
(* The Incremental Updater applying a batch.  A batch maps each path to    *)
(* the change type of its pending event, or to "none".                     *)
(***************************************************************************)
NoChanges == [p \in Paths |-> "none"]

Batches == [Paths -> {"none", "created", "modified", "deleted"}] \ {NoChanges}

\* smart_incremental_update.py _process_single_file_change.  The call at line
\* 303 passes two arguments to _analyze_single_file, which takes one: it
\* raises TypeError before the method body runs.
ProcessSingleFileChange(kg, disk, file_path, change_type) ==
  CASE change_type = "deleted" ->
         [raised |-> FALSE,
          kg |-> [kg EXCEPT
                    !.files = [q \in (DOMAIN kg.files) \ {file_path} |-> kg.files[q]],
                    !.entities = {e \in kg.entities : e[1] # file_path}]]
    [] change_type \in {"created", "modified"} ->
         [raised |-> disk[file_path] # Absent, kg |-> kg]
    [] OTHER -> [raised |-> FALSE, kg |-> kg]

\* the loop of _process_file_changes (lines 249-260) over the paths from
\* position i on: the graph after it and the set updated_files
RECURSIVE ApplyChanges(_, _, _, _, _)
ApplyChanges(kg, disk, changes, order, i) ==
  IF i > Len(order) THEN [kg |-> kg, updated_files |-> {}]
  ELSE LET p == order[i]
           one == ProcessSingleFileChange(kg, disk, p, changes[p])
           rest == ApplyChanges(one.kg, disk, changes, order, i + 1)
       IN  [kg |-> rest.kg,
            updated_files |-> rest.updated_files
               \cup (IF changes[p] # "none" /\ ~one.raised THEN {p} ELSE {})]

PathOrder == <<"a.py", "c.js">>

\* smart_incremental_update.py _update_dependencies: line 325 calls
\* _analyze_imports_exports, which ProjectKnowledgeGraph does not define, so
\* the first updated file still in the graph raises AttributeError
UpdateDependenciesRaises(kg, updated_files) ==
  \E p \in updated_files : p \in DOMAIN kg.files

\* smart_incremental_update.py _process_file_changes.  The graph that
\* load_project returns from the cache or the snapshot is the object the cache
\* holds, so the changes made to it are changes of the cache entry.
ProcessFileChangesOf(S, M, changes, disk, mtime, importable, fault) ==
  LET pid == GetProjectId(M, ProjectRoot)
      ld == LoadProject(S, M, ProjectRoot, TRUE, disk, mtime, importable)
      full == AnalyzeProject(disk, mtime)
      fsave == SaveProject(ld.S, ld.M, full, fault)
      ap == ApplyChanges(ld.kg, disk, changes, PathOrder, 1)
      M1 == IF ld.src \in {"cache", "snapshot"}
            THEN [ld.M EXCEPT !.cache[pid] = ap.kg] ELSE ld.M
      sv == SaveProject(ld.S, M1, ap.kg, fault)
  IN  IF ld.kg.tag # "graph"
      THEN [status |-> IF fsave.ok THEN "reanalysed" ELSE "save_failed",
            saved |-> fsave.ok, kg |-> full, src |-> ld.src, S |-> fsave.S, M |-> fsave.M]
      ELSE IF UpdateDependenciesRaises(ap.kg, ap.updated_files)
      THEN [status |-> "crashed", saved |-> FALSE, kg |-> ap.kg, src |-> ld.src,
            S |-> ld.S, M |-> M1]
      ELSE [status |-> IF sv.ok THEN "saved" ELSE "save_failed",
            saved |-> sv.ok, kg |-> ap.kg, src |-> ld.src, S |-> sv.S, M |-> sv.M]

(***************************************************************************)
(* The file watcher of the Incremental Updater.  Time is counted in        *)
(* seconds.  A threading.Timer is a thread that waits for its interval and *)
(* then runs _process_batch_changes unless it was cancelled while waiting. *)
(* _queue_change runs on the single watcher thread and takes no time on    *)
(* the scale of the delay; its statements interleave freely with those of  *)
(* timer threads, since the handler takes no lock.                         *)
(***************************************************************************)
\* smart_incremental_update.py:42
BatchDelay == 2

WatchPaths == Paths
ChangeTypes == {"modified", "deleted"}
TimerIds == 1..MaxEvents

NoChange == [n |-> 0, change_type |-> ""]
EmptyBatch == [p \in WatchPaths |-> NoChange]
NoTimer == [state |-> "unused", left |-> 0, changes |-> EmptyBatch]
IdleWatcher == [pc |-> "idle", file_path |-> "", change_info |-> NoChange]

\* line 84 as it would be if a pending change of the path were kept
KeepFirstChange(batch, file_path, change_info) ==
  IF batch[file_path] = NoChange
  THEN [batch EXCEPT ![file_path] = change_info] ELSE batch

\* smart_incremental_update.py:84  self.batch_changes[file_path] = change_info
PutChange(batch, file_path, change_info) ==
  [batch EXCEPT ![file_path] = change_info]

\* threading.Timer.cancel: stops the timer only while it still waits
CancelTimer(T, t) ==
  IF t # 0 /\ T[t].state = "waiting" THEN [T EXCEPT ![t].state = "cancelled"] ELSE T

(***************************************************************************)
(* Raw events of the watcher.  A raw path is [dirs, stem, ext]: the        *)
(* directories below the project root, and the file name split at its      *)
(* only dot.  The names here hold one dot at most, so a name ends with a   *)
(* dotted ending exactly when that ending is its extension.                *)
(***************************************************************************)
\* smart_incremental_update.py:117-121: the patterns without a leading '*'
IgnoreNames ==
  {".git", ".DS_Store", "__pycache__", "node_modules", ".next", ".nuxt", "dist", "build",
   ".vscode"}

\* the patterns with a leading '*', without it
IgnoreEndings == {".log", ".tmp", ".temp", ".cache"}

\* smart_incremental_update.py:124-130
CodeExtensions ==
  {".py", ".js", ".ts", ".tsx", ".jsx", ".vue", ".java", ".cpp", ".c", ".h", ".hpp", ".cs",
   ".go", ".rs", ".php", ".rb", ".swift", ".kt", ".scala", ".md", ".json", ".yaml", ".yml",
   ".xml", ".css", ".scss", ".less", ".html", ".htm"}

RawPath(dirs, stem, ext) == [dirs |-> dirs, stem |-> stem, ext |-> ext]

RawPaths ==
  {RawPath(<<>>, "a", ".py"), RawPath(<<>>, "c", ".js"),
   RawPath(<<"node_modules">>, "c", ".js"), RawPath(<<"build">>, "a", ".py"),
   RawPath(<<>>, "a", ".log"), RawPath(<<>>, "a", ".TXT")}

NoPath == RawPath(<<>>, "", "")

\* Path(file_path).name
PathName(path) == path.stem \o path.ext

\* Path(file_path).parts
PathParts(path) == {path.dirs[i] : i \in 1..Len(path.dirs)} \cup {PathName(path)}

\* str(Path(file_path).resolve()), relative to the project root
RECURSIVE PathKey(_)
PathKey(path) ==
  IF path.dirs = <<>> THEN PathName(path)
  ELSE path.dirs[1] \o "/" \o PathKey([path EXCEPT !.dirs = Tail(path.dirs)])

\* _should_monitor_file as it would be without the loop over ignore_patterns
MonitorCodeFile(path) == path.ext \in CodeExtensions

\* path.suffix.lower()
LowerSuffix(ext) == IF ext = ".TXT" THEN ".txt" ELSE ext

\* smart_incremental_update.py _should_monitor_file
ShouldMonitorFile(path) ==
  /\ \A pattern \in IgnoreEndings : path.ext # pattern
  /\ \A pattern \in IgnoreNames : pattern \notin PathParts(path)
  /\ LowerSuffix(path.ext) \in CodeExtensions

EventKinds == {"modified", "created", "deleted", "moved"}

RawEvents ==
  {ev \in [kind : EventKinds, src_path : RawPaths, dest_path : RawPaths \cup {NoPath},
            is_directory : BOOLEAN] :
     (ev.kind = "moved") <=> (ev.dest_path # NoPath)}

NoEvent == [kind |-> "", src_path |-> NoPath, dest_path |-> NoPath, is_directory |-> FALSE]

\* smart_incremental_update.py _queue_change, run without interruption on
\* the handler's fields H; queued lists the changes it stored
QueueChangeOf(H, file_path, change_type) ==
  IF ~ShouldMonitorFile(file_path) THEN H
  ELSE LET n == H.events + 1
       IN  [batch_changes |-> PutChange(H.batch_changes, PathKey(file_path),
                                        [n |-> n, change_type |-> change_type]),
            timers |-> [CancelTimer(H.timers, H.batch_timer) EXCEPT ![n] =
                          [state |-> "waiting", left |-> BatchDelay, changes |-> EmptyBatch]],
            batch_timer |-> n,
            events |-> n,
            queued |-> Append(H.queued, [file_path |-> PathKey(file_path),
                                         change_type |-> change_type])]

\* on_modified, on_created, on_deleted, on_moved
OnEventOf(H, ev) ==
  IF ev.is_directory THEN H
  ELSE IF ev.kind = "moved"
  THEN QueueChangeOf(QueueChangeOf(H, ev.src_path, "deleted"), ev.dest_path, "created")
  ELSE QueueChangeOf(H, ev.src_path, ev.kind)

(***************************************************************************)
(* The updater's watcher lifecycle.  A watcher object is [cls, state]; the *)
(* environment says, for each watcher class, whether an instance can be    *)
(* brought up now and, if not, at which step it raises.                    *)
(***************************************************************************)
\* smart_incremental_update.py:143
ObserverClasses == <<"Observer", "PollingObserver">>

\* values of the environment variable WATCHDOG_FORCE_POLLING; "" is unset
FlagValues == {"", "1", "No"}

Lower(s) == IF s = "No" THEN "no" ELSE s

\* _should_force_polling
ShouldForcePolling(flag) ==
  IF flag = "" THEN FALSE ELSE Lower(flag) \notin {"0", "false", "no"}

\* _candidate_observers
CandidateObservers(flag) ==
  IF ShouldForcePolling(flag) THEN <<"PollingObserver">> ELSE ObserverClasses

Health == {"ok", "construct", "start"}

WatchEnvs ==
  [flag : FlagValues, health : [{"Observer", "PollingObserver"} -> Health]]

NewUpdater == [monitoring |-> FALSE, observer |-> 0, observer_class |-> ""]

\* start_monitoring as it would be without the stop() of a failed candidate
LeaveCandidate(o) == o

\* lines 348-352: candidate.stop() in the except clause
StopCandidate(o) == [o EXCEPT !.state = "stopped"]

\* start_monitoring as it would be without its guard
NeverMonitoring(U) == FALSE

\* line 329
AlreadyMonitoring(U) == U.monitoring

\* the loop of start_monitoring (lines 339-356) from candidate i on
RECURSIVE TryCandidates(_, _, _, _, _)
TryCandidates(cands, i, obs, env, last_error) ==
  IF i > Len(cands)
  THEN [observer |-> 0, cls |-> "", observers |-> obs, last_error |-> last_error]
  ELSE LET c == cands[i]
           h == env.health[c]
       IN  IF h = "ok"
           THEN [observer |-> Len(obs) + 1, cls |-> c,
                 observers |-> Append(obs, [cls |-> c, state |-> "running"]),
                 last_error |-> last_error]
           ELSE TryCandidates(cands, i + 1,
                  IF h = "construct" THEN obs
                  ELSE Append(obs, StopCandidate(
                         [cls |-> c,
                          state |-> "half_started"])),
                  env, [cls |-> c, step |-> h])

\* smart_incremental_update.py start_monitoring
StartMonitoringOf(U, obs, env) ==
  LET r == TryCandidates(CandidateObservers(env.flag), 1, obs, env, NoError)
  IN  IF AlreadyMonitoring(U)
      THEN [U |-> U, observers |-> obs, raised |-> FALSE, error |-> NoError]
      ELSE IF r.observer = 0
      THEN [U |-> U, observers |-> r.observers, raised |-> TRUE, error |-> r.last_error]
      ELSE [U |-> [monitoring |-> TRUE, observer |-> r.observer, observer_class |-> r.cls],
            observers |-> r.observers, raised |-> FALSE, error |-> NoError]

\* smart_incremental_update.py stop_monitoring: stop and join the watcher
StopMonitoringOf(U, obs) ==
  IF ~U.monitoring \/ U.observer = 0
  THEN [U |-> U, observers |-> obs]
  ELSE [U |-> [U EXCEPT !.monitoring = FALSE],
        observers |-> [obs EXCEPT ![U.observer].state = "stopped"]]

\* smart_incremental_update.py force_update.  The fault "builder" is an
\* exception out of analyze_project (its directory listing is not guarded);
\* it leaves force_update at line 403.
ForceUpdateOf(U, obs, env, S, M, disk, mtime, fault) ==
  LET was_monitoring == U.monitoring
      st == IF was_monitoring THEN StopMonitoringOf(U, obs) ELSE [U |-> U, observers |-> obs]
      sv == SaveProject(S, M, AnalyzeProject(disk, mtime), fault)
      rs == IF was_monitoring THEN StartMonitoringOf(st.U, st.observers, env)
            ELSE [U |-> st.U, observers |-> st.observers, raised |-> FALSE, error |-> NoError]
  IN  IF fault = "builder"
      THEN [raised |-> TRUE, error |-> [cls |-> "analyze_project", step |-> "builder"],
            status |-> "", monitoring_restarted |-> FALSE, saved |-> FALSE,
            U |-> st.U, observers |-> st.observers, S |-> S, M |-> M]
      ELSE [raised |-> rs.raised, error |-> rs.error,
            status |-> IF sv.ok THEN "success" ELSE "failed",
            monitoring_restarted |-> was_monitoring, saved |-> sv.ok,
            U |-> rs.U, observers |-> rs.observers, S |-> sv.S, M |-> sv.M]

(***************************************************************************)
(* The Builder's risk scores and statistics.  Of a file they use four      *)
(* numbers: st_size, the count of non-blank lines, len(entities) and       *)
(* len(imports).  A score is a Python float.  The number 10*t + u stands   *)
(* for the float that lies u representable numbers above the float nearest *)
(* to t/10, so that the order of the numbers is the order of the floats.   *)
(***************************************************************************)
SizeLimit == 10000
LineLimit == 500
EntityLimit == 20
ImportLimit == 15

Tenth == 10

\* _calculate_risk_scores as it would be with >= in its comparisons
AtLeast(value, limit) == value >= limit

\* lines 573, 577, 581 and 585: the comparisons are strict
Exceeds(value, limit) == value > limit

\* float addition on the values that occur: 0.4 + 0.2 is the float above 0.6
\* and 0.7 + 0.2 the float below 0.9; every other sum is the nearest float
FloatAdd(x, y) ==
  IF x = 4 * Tenth /\ y = 2 * Tenth THEN 6 * Tenth + 1
  ELSE IF x = 7 * Tenth /\ y = 2 * Tenth THEN 9 * Tenth - 1
  ELSE x + y

\* sum(risk_factors): from 0, left to right
RECURSIVE FloatSum(_, _)
FloatSum(factors, n) ==
  IF n = 0 THEN 0 ELSE FloatAdd(FloatSum(factors, n - 1), factors[n])

\* the list risk_factors of a file, in the order of the appends
RiskFactors(node) ==
  (IF Exceeds(node.size_bytes, SizeLimit) THEN <<3 * Tenth>> ELSE <<>>)
  \o (IF Exceeds(node.line_count, LineLimit) THEN <<4 * Tenth>> ELSE <<>>)
  \o (IF Exceeds(node.entities, EntityLimit) THEN <<3 * Tenth>> ELSE <<>>)
  \o (IF Exceeds(node.imports, ImportLimit) THEN <<2 * Tenth>> ELSE <<>>)

\* line 588: min(1.0, sum(risk_factors))
RiskScore(node) ==
  LET s == FloatSum(RiskFactors(node), Len(RiskFactors(node)))
  IN  IF s < 10 * Tenth THEN s ELSE 10 * Tenth

\* project_mind.py _calculate_risk_scores
CalculateRiskScores(nodes) == [p \in DOMAIN nodes |-> RiskScore(nodes[p])]

\* _update_context_statistics as it would be if its last branch were
\* `elif risk_score < 1.0`
LevelBelowOne(score) ==
  IF score < 3 * Tenth THEN "low"
  ELSE IF score < 6 * Tenth THEN "medium"
  ELSE IF score < 8 * Tenth THEN "high"
  ELSE IF score < 10 * Tenth THEN "extreme" ELSE ""

\* lines 598-605: the if/elif/else chain over risk_score
Level(score) ==
  IF score < 3 * Tenth THEN "low"
  ELSE IF score < 6 * Tenth THEN "medium"
  ELSE IF score < 8 * Tenth THEN "high"
  ELSE "extreme"

Levels == {"low", "medium", "high", "extreme"}

RECURSIVE TotalLines(_, _)
TotalLines(nodes, ps) ==
  IF ps = {} THEN 0
  ELSE LET p == CHOOSE q \in ps : TRUE
       IN  nodes[p].line_count + TotalLines(nodes, ps \ {p})

\* project_mind.py _update_context_statistics
UpdateContextStatistics(nodes, risk) ==
  [total_files |-> Cardinality(DOMAIN nodes),
   total_lines |-> TotalLines(nodes, DOMAIN nodes),
   complexity_distribution |->
     [l \in Levels |-> Cardinality({p \in DOMAIN nodes : Level(risk[p]) = l})]]

\* the project trees the Builder is run on directly, and what its scan
\* counts in a file; a small file is the size of `from a import foo`
BuildPaths == {"a.py", "b.py"}

Trees == {t \in [BuildPaths -> {"foo", "foobar", "from_a", Absent}] :
            \A p \in BuildPaths : t[p] \in ContentsOf(p) \cup {Absent}}

SmallFile == [size_bytes |-> 17, line_count |-> 1, entities |-> 1, imports |-> 1]

Measures ==
  {SmallFile}
  \cup [size_bytes : {SizeLimit, SizeLimit + 1}, line_count : {LineLimit, LineLimit + 1},
        entities : {EntityLimit, EntityLimit + 1}, imports : {ImportLimit, ImportLimit + 1}]

NoAnalysis ==
  [done |-> FALSE, kg |-> NoGraph, nodes |-> <<>>, risk |-> <<>>,
   context |-> [total_files |-> 0, total_lines |-> 0,
                complexity_distribution |-> [l \in Levels |-> 0]]]

\* project_mind.py analyze_project, with the scores and the statistics
AnalyzeProjectContext(tree, measured, stamps) ==
  LET kg == AnalyzeProject(tree, stamps)
      nodes == [p \in FileKeys(kg) |-> measured[p]]
      risk == CalculateRiskScores(nodes)
  IN  [done |-> TRUE, kg |-> kg, nodes |-> nodes, risk |-> risk,
       context |-> UpdateContextStatistics(nodes, risk)]

(***************************************************************************)
(* Queries of git.  Each is one or two subprocess.run calls; none is given *)
(* a timeout.  The tool answers "ok", exits "nonzero", is "missing" (the   *)
(* executable cannot be run, FileNotFoundError) or does not exit ("hang"). *)
(***************************************************************************)
MaxWait == 2

GitQueries ==
  {"current_branch", "commit_info", "show_ref", "checkout", "file_log", "diff_stat"}

GitAnswers == {"ok", "nonzero", "missing", "hang"}

\* the subprocess.run calls of a query
GitRuns(query) == IF query = "commit_info" THEN 2 ELSE 1

\* the queries whose except clause names FileNotFoundError
CatchesMissing(query) == query \in {"current_branch", "commit_info", "file_log"}

IdleGit == [pc |-> "idle", query |-> "", run |-> 0, answer |-> "", waited |-> 0, outcome |-> ""]

\* how the caller goes on when the tool has exited
GitOutcome(query, answer) ==
  CASE answer = "ok" -> "value"
    [] answer = "nonzero" ->
         IF query \in {"show_ref", "checkout"} THEN "error_result" ELSE "placeholder"
    [] answer = "missing" -> IF CatchesMissing(query) THEN "placeholder" ELSE "raised"
    [] OTHER -> ""

(***************************************************************************)
(* Processes that analyse branches of the project at the same time, each   *)
(* a MultiBranchProjectMind with a Memory Manager of its own over the one  *)
(* storage directory.                                                      *)
(***************************************************************************)
Writers == {"branch", "branch2"}

IdleWriter == [pc |-> "idle", branch_name |-> "", commit_hash |-> <<>>, contexts |-> {}]

\* the workers of the pool that run operations of one shared branch manager
Threads == {"t1", "t2"}

\* multi_branch.py:183 and 200: `original` is the local original_get_project_id
IdleThread == [pc |-> "idle", op |-> "", branch_name |-> "", original |-> Original,
               pid |-> "", kg |-> NoGraph]

\* project_memory.py:185-213: no save_project is under way
IdleSave == [pc |-> "idle", pid |-> "", kg |-> NoGraph, before |-> NoGraph]

\* smart_incremental_update.py:100-104: no batch pass runs on the thread;
\* `shared` tells that the graph it loaded is the object the memory cache holds
IdlePass == [pc |-> "idle", changes |-> NoChanges, kg |-> NoGraph, shared |-> FALSE]

\* smart_incremental_update.py:327-377: the thread is in neither call;
\* `observer` is the local of start_monitoring
IdleCaller == [pc |-> "idle", op |-> "", observer |-> 0, observer_class |-> ""]

\* the tasks submitted to the registry
TaskIds == {1, 2}

\* task_registry.py TaskRecord: whether each optional field is set
NoRecord ==
  [status |-> "none", started_at |-> FALSE, finished_at |-> FALSE, result |-> FALSE,
   error_message |-> FALSE]

\* get_task_state on a thread of its own: the field it reads next, the
\* dictionary it builds
IdleReader == [pc |-> "idle", task_id |-> 0, snap |-> NoRecord]

\* task_registry.py TaskRegistry.__init__
NoTasks ==
  [lock |-> 0, records |-> [i \in TaskIds |-> NoRecord], registered |-> {},
   returned |-> {},
   runner |-> [i \in TaskIds |-> "none"], outcome |-> [i \in TaskIds |-> ""],
   reader |-> IdleReader]

(***************************************************************************)
(* State.                                                                  *)
(***************************************************************************)
VARIABLES
  disk,        \* path -> content, or Absent
  mtime,       \* path -> modification time of the file on disk
  head,        \* HEAD commit hash of the working tree
  importable,  \* whether `import project_mind` resolves in this deployment
  store,       \* the storage directory: relational rows, snapshots, side-file
  mgr,         \* manager instance -> its cache, timestamps and get_project_id
  last,        \* the call that ended last, with its arguments and result
  saved,       \* identity -> the graph of the last save_project that returned True
  budget,      \* what is left of the bounds
  batch_changes, \* SmartFileHandler: path -> pending change, or NoChange
  batch_timer,   \* SmartFileHandler: the timer armed last, 0 for None
  timers,        \* timer -> its thread: state, time left to wait, local `changes`
  watcher,       \* the watcher thread inside _queue_change
  clock,         \* accepted events so far, time since the last one, whether
                 \* every one of them came less than the delay after the one before
  accepted,      \* the accepted events in order of arrival
  delivered,     \* the batches handed to _process_file_changes, in order
  updater,       \* SmartIncrementalUpdater: monitoring, observer, _observer_class
  observers,     \* every watcher object constructed so far
  watch_env,     \* WATCHDOG_FORCE_POLLING and what each watcher class can do now
  current_branch, \* MultiBranchProjectMind.current_branch
  writers,       \* process -> where it is in saving a branch and its context
  completed,     \* the (project, branch) pairs whose analysis returned analyzed
  tree,          \* a project the Builder is run on directly: path -> content
  measured,      \* what the scan counts in each file of that project
  tree_mtime,    \* the modification time of each file of that project
  analysis,      \* what analyze_project left of that project
  git,           \* the query of git under way: its call, the tool's answer, the wait
  threads,       \* pool worker -> where it is in a branch operation of the shared manager
  saving,        \* the save_project under way: its transaction and snapshot write
  passes,        \* processor thread -> the batch pass it runs and the graph it holds
  callers,       \* thread -> where it is in start_monitoring or stop_monitoring
  tasks          \* TaskRegistry: lock, records, registered ids, runners, a reader

coreVars == <<disk, mtime, head, importable, store, mgr, last, saved, budget>>
watchVars == <<batch_changes, batch_timer, timers, watcher, clock, accepted, delivered>>
extVars == <<updater, observers, watch_env, current_branch, writers, completed>>
treeVars == <<tree, measured, tree_mtime>>
poolVars == <<passes, callers, tasks>>
restVars == <<tree, measured, tree_mtime, analysis, git, threads, saving,
              passes, callers, tasks>>
vars == <<disk, mtime, head, importable, store, mgr, last, saved, budget,
          batch_changes, batch_timer, timers, watcher, clock, accepted, delivered,
          updater, observers, watch_env, current_branch, writers, completed,
          tree, measured, tree_mtime, analysis, git, threads, saving,
          passes, callers, tasks>>

NoCall ==
  [op |-> "none", manager |-> "", pid |-> "", branch |-> "", force |-> FALSE,
   use_cache |-> FALSE, fault |-> "none", ok |-> FALSE, status |-> "",
   src |-> "", builder |-> FALSE, kg |-> NoGraph, after |-> "",
   changes |-> NoChanges, raised |-> FALSE, error |-> NoError, was |-> FALSE,
   monitoring_restarted |-> FALSE, target |-> "", branch2 |-> "",
   loaded |-> <<FALSE, FALSE>>, diff |-> NoDiff, event |-> NoEvent]

\* everything but the project the Builder is run on directly
Constructed ==
  /\ disk = [p \in Paths |-> IF p = "a.py" THEN "foo" ELSE "jsimp"]
  /\ mtime = [p \in Paths |-> 0]
  /\ head = Commit1
  /\ importable \in BOOLEAN
  /\ store = EmptyStore
  /\ mgr = [m \in Managers |-> NewManager]
  /\ last = NoCall
  /\ saved = [i \in Ids |-> NoGraph]
  /\ budget = [edits |-> MaxEdits, faults |-> MaxFaults,
               calls |-> MaxCalls]
  /\ batch_changes = [p \in WatchPaths |-> NoChange]
  /\ batch_timer = 0
  /\ timers = [t \in TimerIds |-> NoTimer]
  /\ watcher = IdleWatcher
  /\ clock = [events |-> 0, gap |-> 0, rapid |-> TRUE]
  /\ accepted = <<>>
  /\ delivered = <<>>
  /\ updater = NewUpdater
  /\ observers = <<>>
  /\ watch_env = [flag |-> "", health |-> [c \in {"Observer", "PollingObserver"} |-> "ok"]]
  /\ current_branch = "main"
  /\ writers = [w \in Writers |-> IdleWriter]
  /\ completed = {}
  /\ analysis = NoAnalysis
  /\ tree_mtime = [p \in BuildPaths |-> 0]
  /\ git = IdleGit
  /\ threads = [t \in Threads |-> IdleThread]
  /\ saving = IdleSave
  /\ passes = [t \in Threads |-> IdlePass]
  /\ callers = [t \in Threads |-> IdleCaller]
  /\ tasks = NoTasks

Init ==
  /\ Constructed
  /\ tree = [p \in BuildPaths |-> Absent]
  /\ measured = [p \in BuildPaths |-> SmallFile]

FaultChoices(all) == IF budget.faults > 0 THEN all ELSE {"none"}

Spend(fault) ==
  [budget EXCEPT !.calls = @ - 1, !.faults = IF fault = "none" THEN @ ELSE @ - 1]

\* what `last` remembers of the calls before it: the status of an unforced
\* analysis that no other call and no commit has followed
Prior ==
  IF last.op = "analyze" THEN (IF last.force THEN "" ELSE last.status)
  ELSE IF last.op = "start" THEN (IF last.raised THEN "start_raised" ELSE "")
  ELSE IF last.op = "env" THEN last.after ELSE ""

Chain(branch) == IF last.branch = branch THEN Prior ELSE ""

(***************************************************************************)
(* The environment: edits of the working tree, commits, the passing of     *)
(* time.                                                                   *)
(***************************************************************************)
EnvCall(keeps) ==
  [NoCall EXCEPT !.op = "env",
     !.branch = IF keeps /\ last.op \in {"analyze", "env"} THEN last.branch ELSE "",
     !.after = IF keeps THEN Prior ELSE ""]

WriteFile(p, c) ==
  /\ budget.edits > 0
  /\ c \in ContentsOf(p) \cup {Absent}
  /\ ~(c = Absent /\ disk[p] = Absent)
  /\ disk' = [disk EXCEPT ![p] = c]
  /\ mtime' = [mtime EXCEPT ![p] = @ + 1]
  /\ budget' = [budget EXCEPT !.edits = @ - 1]
  /\ last' = EnvCall(TRUE)
  /\ UNCHANGED <<head, importable, store, mgr, saved>>
  /\ UNCHANGED <<watchVars, extVars, restVars>>

\* a commit moves HEAD forward in the history
Commit(h) ==
  /\ \E i, j \in 1..Len(History) : i < j /\ History[i] = head /\ History[j] = h
  /\ head' = h
  /\ last' = EnvCall(FALSE)
  /\ UNCHANGED <<disk, mtime, importable, store, mgr, saved, budget>>
  /\ UNCHANGED <<watchVars, extVars, restVars>>

\* the time-to-live of the cache passes
Expire ==
  /\ \E m \in Managers, i \in Ids : mgr[m].cache[i].tag = "graph" /\ mgr[m].age[i] < CacheTtl
  /\ mgr' = [m \in Managers |->
               [mgr[m] EXCEPT !.age =
                  [i \in Ids |-> IF mgr[m].cache[i].tag = "graph" THEN CacheTtl ELSE 0]]]
  /\ last' = EnvCall(TRUE)
  /\ UNCHANGED <<disk, mtime, head, importable, store, saved, budget>>
  /\ UNCHANGED <<watchVars, extVars, restVars>>

\* one hour passes
Tick ==
  /\ \E m \in Managers, i \in Ids : mgr[m].cache[i].tag = "graph" /\ mgr[m].age[i] < CacheTtl
  /\ mgr' = [m \in Managers |->
               [mgr[m] EXCEPT !.age =
                  [i \in Ids |-> IF mgr[m].cache[i].tag = "graph" /\ mgr[m].age[i] < CacheTtl
                                 THEN mgr[m].age[i] + 1 ELSE mgr[m].age[i]]]]
  /\ last' = EnvCall(TRUE)
  /\ UNCHANGED <<disk, mtime, head, importable, store, saved, budget>>
  /\ UNCHANGED <<watchVars, extVars, restVars>>

(***************************************************************************)
(* Calls.                                                                  *)
(***************************************************************************)
\* MultiBranchProjectMind.analyze_branch_project on the branch manager's instance
AnalyzeBranch(b, force, fault) ==
  LET r == AnalyzeBranchProject(store, mgr["branch"], b, force, disk, mtime, head,
                                importable, fault)
      pid == GenerateBranchProjectId(b)
  IN  /\ budget.calls > 0
      /\ store' = r.S
      /\ mgr' = [mgr EXCEPT !["branch"] = r.M]
      /\ saved' = IF r.builder /\ fault \in {"none", "side_file"}
                  THEN [saved EXCEPT ![pid] = r.kg] ELSE saved
      /\ budget' = Spend(fault)
      /\ last' = [NoCall EXCEPT !.op = "analyze", !.manager = "branch", !.pid = pid,
                    !.branch = b, !.force = force,
                    !.ok = (r.status # "failed"), !.status = r.status,
                    !.builder = r.builder, !.after = Chain(b)]
      /\ UNCHANGED <<disk, mtime, head, importable>>
      /\ UNCHANGED <<watchVars, extVars, restVars>>

\* SmartIncrementalUpdater.full_reanalysis on the updater's instance
FullReanalysis(fault) ==
  LET kg == AnalyzeProject(disk, mtime)
      pid == GetProjectId(mgr["updater"], ProjectRoot)
      r == SaveProject(store, mgr["updater"], kg, fault)
  IN  /\ budget.calls > 0
      /\ store' = r.S
      /\ mgr' = [mgr EXCEPT !["updater"] = r.M]
      /\ saved' = IF r.ok THEN [saved EXCEPT ![pid] = kg] ELSE saved
      /\ budget' = Spend(fault)
      /\ last' = [NoCall EXCEPT !.op = "save", !.manager = "updater", !.pid = pid,
                    !.fault = fault, !.ok = r.ok, !.builder = TRUE]
      /\ UNCHANGED <<disk, mtime, head, importable>>
      /\ UNCHANGED <<watchVars, extVars, restVars>>

\* ProjectMemoryManager.load_project on the updater's instance
Load(use_cache) ==
  LET pid == GetProjectId(mgr["updater"], ProjectRoot)
      r == LoadProject(store, mgr["updater"], ProjectRoot, use_cache, disk, mtime, importable)
  IN  /\ budget.calls > 0
      /\ store' = r.S
      /\ mgr' = [mgr EXCEPT !["updater"] = r.M]
      /\ budget' = Spend("none")
      /\ last' = [NoCall EXCEPT !.op = "load", !.manager = "updater", !.pid = pid,
                    !.use_cache = use_cache, !.ok = (r.kg.tag = "graph"),
                    !.src = r.src, !.kg = r.kg]
      /\ UNCHANGED <<disk, mtime, head, importable, saved>>
      /\ UNCHANGED <<watchVars, extVars, restVars>>

\* MultiBranchProjectMind._load_branch_project on the branch manager's instance
LoadBranch(b) ==
  LET pid == GenerateBranchProjectId(b)
      r == LoadBranchProject(store, mgr["branch"], b, disk, mtime, importable)
  IN  /\ budget.calls > 0
      /\ store' = r.S
      /\ mgr' = [mgr EXCEPT !["branch"] = r.M]
      /\ budget' = Spend("none")
      /\ last' = [NoCall EXCEPT !.op = "load", !.manager = "branch", !.pid = pid,
                    !.branch = b, !.use_cache = TRUE, !.ok = (r.kg.tag = "graph"),
                    !.src = r.src, !.kg = r.kg]
      /\ UNCHANGED <<disk, mtime, head, importable, saved>>
      /\ UNCHANGED <<watchVars, extVars, restVars>>

\* SmartIncrementalUpdater._process_file_changes on the updater's instance
ProcessFileChanges(changes, fault) ==
  LET pid == GetProjectId(mgr["updater"], ProjectRoot)
      r == ProcessFileChangesOf(store, mgr["updater"], changes, disk, mtime,
                                importable, fault)
  IN  /\ budget.calls > 0
      /\ store' = r.S
      /\ mgr' = [mgr EXCEPT !["updater"] = r.M]
      /\ saved' = IF r.saved THEN [saved EXCEPT ![pid] = r.kg] ELSE saved
      /\ budget' = Spend(fault)
      /\ last' = [NoCall EXCEPT !.op = "batch", !.manager = "updater", !.pid = pid,
                    !.fault = fault, !.ok = r.saved, !.status = r.status,
                    !.src = r.src, !.kg = r.kg, !.changes = changes]
      /\ UNCHANGED <<disk, mtime, head, importable>>
      /\ UNCHANGED <<watchVars, extVars, restVars>>

BranchFaults == {"none", "entities", "commit", "side_file"}

\* The Memory Manager alone: one instance, the unpartitioned identity.
Next ==
  \/ \E p \in Paths, c \in {"foo", "foobar", "jsimp", Absent} : WriteFile(p, c)
  \/ Tick
  \/ \E fault \in FaultChoices(Faults) : FullReanalysis(fault)
  \/ \E use_cache \in BOOLEAN : Load(use_cache)

Spec == Init /\ [][Next]_vars

\* The Multi-Branch Manager over the same storage directory.
NextBranch ==
  \/ WriteFile("a.py", disk["a.py"])
  \/ \E h \in Commits : Commit(h)
  \/ Expire
  \/ \E b \in Branches, force \in BOOLEAN, fault \in FaultChoices(BranchFaults) :
       AnalyzeBranch(b, force, fault)
  \/ FullReanalysis("none")
  \/ \E b \in Branches : LoadBranch(b)

SpecBranch == Init /\ [][NextBranch]_vars

\* The Incremental Updater applying batches to the graph it persisted.
NextBatch ==
  \/ \E p \in Paths, c \in {"foo", "foobar", "jsimp", Absent} : WriteFile(p, c)
  \/ Expire
  \/ FullReanalysis("none")
  \/ \E changes \in Batches, fault \in FaultChoices({"none", "commit"}) :
       ProcessFileChanges(changes, fault)

SpecBatch == Init /\ [][NextBatch]_vars

(***************************************************************************)
(* Switching and comparing branches.                                       *)
(***************************************************************************)
\* MultiBranchProjectMind.switch_to_branch_analysis
SwitchToBranch(target, fault) ==
  \E r \in {SwitchToBranchAnalysis(store, mgr["branch"], current_branch, head, target,
                                    disk, mtime, importable, fault)} :
      /\ budget.calls > 0
      /\ store' = r.S
      /\ mgr' = [mgr EXCEPT !["branch"] = r.M]
      /\ current_branch' = r.current_branch
      /\ head' = r.head
      /\ saved' = IF r.status = "analyzed"
                  THEN [saved EXCEPT ![GenerateBranchProjectId(target)] = r.kg] ELSE saved
      /\ budget' = Spend(fault)
      /\ last' = [NoCall EXCEPT !.op = "switch", !.manager = "branch", !.target = target,
                    !.fault = fault, !.raised = r.raised, !.status = r.status,
                    !.error = r.error, !.builder = r.builder, !.ok = (r.status = "analyzed")]
      /\ UNCHANGED <<disk, mtime, importable>>
      /\ UNCHANGED <<updater, observers, watch_env, writers, completed>>
      /\ UNCHANGED <<watchVars, restVars>>

\* MultiBranchProjectMind.compare_branches
Compare(b1, b2) ==
  LET r == CompareBranches(store, mgr["branch"], b1, b2, disk, mtime, importable)
  IN  /\ store' = r.S
      /\ mgr' = [mgr EXCEPT !["branch"] = r.M]
      /\ last' = [NoCall EXCEPT !.op = "compare", !.manager = "branch", !.branch = b1,
                    !.branch2 = b2, !.status = r.status, !.ok = (r.status = "success"),
                    !.loaded = r.loaded, !.diff = r.diff]
      /\ UNCHANGED <<disk, mtime, head, importable, saved, budget>>
      /\ UNCHANGED <<watchVars, extVars, restVars>>

NextSwitch ==
  \/ WriteFile("a.py", "foobar")
  \/ \E b \in Branches : AnalyzeBranch(b, FALSE, "none")
  \/ \E target \in Targets, fault \in FaultChoices({"none", "no_git", "checkout", "commit"}) :
       SwitchToBranch(target, fault)

SpecSwitch == Init /\ [][NextSwitch]_vars

NextCompare ==
  \/ \E p \in Paths, c \in {"foobar", Absent} : WriteFile(p, c)
  \/ Expire
  \/ \E b \in Branches : AnalyzeBranch(b, FALSE, "none")
  \/ \E b1, b2 \in Branches : Compare(b1, b2)

SpecCompare == Init /\ [][NextCompare]_vars

(***************************************************************************)
(* Branch analyses running in separate processes.  The graph is saved      *)
(* inside one sqlite transaction; the side-file is read and written by     *)
(* _save_branch_context without any lock, in two steps.                    *)
(***************************************************************************)
\* analyze_branch_project(b, force_update=True) up to save_project (line 203)
BeginAnalysis(w, b) ==
  LET kg == [AnalyzeProject(disk, mtime) EXCEPT !.version = VersionString(b, head)]
      r == SaveProject(store, [mgr[w] EXCEPT !.get_project_id = b], kg, "none")
  IN  /\ writers[w].pc = "idle"
      /\ budget.calls > 0
      /\ store' = r.S
      /\ mgr' = [mgr EXCEPT ![w] = r.M]
      /\ saved' = [saved EXCEPT ![GenerateBranchProjectId(b)] = kg]
      /\ writers' = [writers EXCEPT ![w] =
                       [pc |-> "read", branch_name |-> b, commit_hash |-> head,
                        contexts |-> {}]]
      /\ budget' = Spend("none")
      /\ last' = [NoCall EXCEPT !.op = "begin", !.manager = w, !.branch = b]
      /\ UNCHANGED <<disk, mtime, head, importable>>
      /\ UNCHANGED <<updater, observers, watch_env, current_branch, completed>>
      /\ UNCHANGED <<watchVars, restVars>>

\* _save_branch_context lines 222-228: the side-file is loaded
ReadContexts(w) ==
  /\ writers[w].pc = "read"
  /\ writers' = [writers EXCEPT ![w].pc = "write", ![w].contexts = store.branch_contexts]
  /\ last' = [NoCall EXCEPT !.op = "read", !.manager = w]
  /\ UNCHANGED <<disk, mtime, head, importable, store, mgr, saved, budget>>
  /\ UNCHANGED <<updater, observers, watch_env, current_branch, completed>>
  /\ UNCHANGED <<watchVars, restVars>>

\* _save_branch_context lines 231-247: the entry is set and the file written;
\* then get_project_id is restored and analyze_branch_project returns analyzed
WriteContexts(w) ==
  /\ writers[w].pc = "write"
  /\ store' = [store EXCEPT !.branch_contexts =
                 MergeBranchContext(writers[w].contexts, writers[w].branch_name,
                                    writers[w].commit_hash)]
  /\ mgr' = [mgr EXCEPT ![w].get_project_id = Original]
  /\ completed' = completed \cup {[project_root |-> ProjectRoot,
                                    branch_name |-> writers[w].branch_name]}
  /\ writers' = [writers EXCEPT ![w] = IdleWriter]
  /\ last' = [NoCall EXCEPT !.op = "analyze", !.manager = w,
                !.pid = GenerateBranchProjectId(writers[w].branch_name),
                !.branch = writers[w].branch_name, !.force = TRUE, !.ok = TRUE,
                !.status = "analyzed", !.builder = TRUE]
  /\ UNCHANGED <<disk, mtime, head, importable, saved, budget>>
  /\ UNCHANGED <<updater, observers, watch_env, current_branch>>
  /\ UNCHANGED <<watchVars, restVars>>

NextSide ==
  \/ \E h \in Commits : Commit(h)
  \/ \E w \in Writers, b \in Branches : BeginAnalysis(w, b)
  \/ \E w \in Writers : ReadContexts(w)
  \/ \E w \in Writers : WriteContexts(w)

SpecSide == Init /\ [][NextSide]_vars

(***************************************************************************)
(* One Memory Manager serving several projects.                            *)
(***************************************************************************)
DiskOf(r) == IF r = ProjectRoot THEN disk ELSE [p \in Paths |-> Absent]

GraphOf(r) == [AnalyzeProject(DiskOf(r), mtime) EXCEPT !.project_root = r]

\* ProjectMemoryManager.save_project of the analysed project r
SaveRoot(r) ==
  LET pid == GetProjectId(mgr["updater"], r)
      r1 == SaveProject(store, mgr["updater"], GraphOf(r), "none")
  IN  /\ store' = r1.S
      /\ mgr' = [mgr EXCEPT !["updater"] = r1.M]
      /\ saved' = [saved EXCEPT ![pid] = GraphOf(r)]
      /\ last' = [NoCall EXCEPT !.op = "save", !.manager = "updater", !.pid = pid,
                    !.ok = r1.ok, !.builder = TRUE]
      /\ UNCHANGED <<disk, mtime, head, importable, budget>>
      /\ UNCHANGED <<watchVars, extVars, restVars>>

\* ProjectMemoryManager.load_project of project r
LoadRoot(r, use_cache) ==
  LET pid == GetProjectId(mgr["updater"], r)
      r1 == LoadProject(store, mgr["updater"], r, use_cache, DiskOf(r), mtime, importable)
  IN  /\ store' = r1.S
      /\ mgr' = [mgr EXCEPT !["updater"] = r1.M]
      /\ last' = [NoCall EXCEPT !.op = "load", !.manager = "updater", !.pid = pid,
                    !.use_cache = use_cache, !.ok = (r1.kg.tag = "graph"),
                    !.src = r1.src, !.kg = r1.kg]
      /\ UNCHANGED <<disk, mtime, head, importable, saved, budget>>
      /\ UNCHANGED <<watchVars, extVars, restVars>>

NextCache ==
  \/ \E r \in Roots : SaveRoot(r)
  \/ \E r \in Roots, use_cache \in BOOLEAN : LoadRoot(r, use_cache)
  \/ Expire

SpecCache == Init /\ [][NextCache]_vars

(***************************************************************************)
(* The Builder run on a project directly.                                  *)
(***************************************************************************)
InitBuild ==
  /\ Constructed
  /\ tree \in Trees
  /\ measured \in [BuildPaths -> Measures]

\* ProjectKnowledgeGraph(root).analyze_project()
AnalyzeTree ==
  /\ analysis' = AnalyzeProjectContext(tree, measured, tree_mtime)
  /\ UNCHANGED <<coreVars, watchVars, extVars, treeVars, git, threads, saving, poolVars>>

NextBuild == AnalyzeTree

SpecBuild == InitBuild /\ [][NextBuild]_vars

(***************************************************************************)
(* The enhanced interface: analysis of the current branch through the      *)
(* branch manager, then batches of the updater it started.                 *)
(***************************************************************************)
\* EnhancedProjectMindInterface.analyze_project(root, force, enable_monitoring)
InterfaceAnalyzeProject(force, enable_monitoring) ==
  \E r \in {AnalyzeBranchProject(store, mgr["branch"], current_branch, force, disk, mtime,
                                  head, importable, "none")} :
  \E s \in {IF enable_monitoring /\ ~updater.monitoring
             THEN StartMonitoringOf(updater, observers, watch_env)
             ELSE [U |-> updater, observers |-> observers, raised |-> FALSE,
                   error |-> NoError]} :
      /\ budget.calls > 0
      /\ store' = r.S
      /\ mgr' = [mgr EXCEPT !["branch"] = r.M]
      /\ saved' = IF r.status = "analyzed"
                  THEN [saved EXCEPT ![GenerateBranchProjectId(current_branch)] = r.kg]
                  ELSE saved
      /\ updater' = s.U
      /\ observers' = s.observers
      /\ budget' = Spend("none")
      /\ last' = [NoCall EXCEPT !.op = "interface_analyze", !.manager = "branch",
                    !.pid = GenerateBranchProjectId(current_branch),
                    !.branch = current_branch, !.force = force,
                    !.ok = (r.status # "failed"), !.status = r.status,
                    !.builder = r.builder, !.monitoring_restarted = s.U.monitoring]
      /\ UNCHANGED <<disk, mtime, head, importable>>
      /\ UNCHANGED <<watch_env, current_branch, writers, completed>>
      /\ UNCHANGED <<watchVars, restVars>>

\* a batch of the watcher the interface started
MonitoredBatch(changes) ==
  /\ updater.monitoring
  /\ ProcessFileChanges(changes, "none")

\* EnhancedProjectMindInterface.get_project_summary: the base summary comes
\* from ProjectMindInterface.get_project_summary, which loads the project
\* through the manager get_memory_manager() returns; `ok` is FALSE for the
\* payload {'error': ...}
GetProjectSummary ==
  \E r \in {LoadProject(store, mgr["global"], ProjectRoot, TRUE, disk, mtime, importable)} :
    /\ budget.calls > 0
    /\ store' = r.S
    /\ mgr' = [mgr EXCEPT !["global"] = r.M]
    /\ budget' = Spend("none")
    /\ last' = [NoCall EXCEPT !.op = "summary", !.manager = "global",
                  !.pid = GetProjectId(mgr["global"], ProjectRoot),
                  !.branch = current_branch, !.use_cache = TRUE,
                  !.ok = (r.kg.tag = "graph"), !.src = r.src, !.kg = r.kg,
                  !.after = IF last.op = "interface_analyze" THEN last.status ELSE ""]
    /\ UNCHANGED <<disk, mtime, head, importable, saved>>
    /\ UNCHANGED <<watchVars, extVars, restVars>>

NextLive ==
  \/ \E p \in Paths, c \in {"foobar", Absent} : WriteFile(p, c)
  \/ \E force, enable_monitoring \in BOOLEAN : InterfaceAnalyzeProject(force, enable_monitoring)
  \/ \E changes \in Batches : MonitoredBatch(changes)
  \/ GetProjectSummary

SpecLive == Init /\ [][NextLive]_vars

(***************************************************************************)
(* A thread querying git.                                                  *)
(***************************************************************************)
\* subprocess.run([...], cwd=self.project_root, ...) of the query's first call
RunGit(query, answer) ==
  /\ git.pc \in {"idle", "done"}
  /\ git' = [pc |-> "running", query |-> query, run |-> 1, answer |-> answer,
             waited |-> 0, outcome |-> ""]
  /\ UNCHANGED <<coreVars, watchVars, extVars, treeVars, analysis, threads, saving, poolVars>>

\* a second passes while subprocess.run waits for the tool to exit
WaitForGit ==
  /\ git.pc = "running"
  /\ git.waited < MaxWait
  /\ git' = [git EXCEPT !.waited = @ + 1]
  /\ UNCHANGED <<coreVars, watchVars, extVars, treeVars, analysis, threads, saving, poolVars>>

\* the tool exits (or could not be run): subprocess.run returns or raises,
\* and the query makes its next call or ends
GitExits(next_answer) ==
  /\ git.pc = "running"
  /\ git.answer # "hang"
  /\ git' = IF git.answer = "ok" /\ git.run < GitRuns(git.query)
            THEN [git EXCEPT !.run = @ + 1, !.answer = next_answer, !.waited = 0]
            ELSE [git EXCEPT !.pc = "done", !.outcome = GitOutcome(git.query, git.answer)]
  /\ UNCHANGED <<coreVars, watchVars, extVars, treeVars, analysis, threads, saving, poolVars>>

NextGit ==
  \/ \E query \in GitQueries, answer \in GitAnswers : RunGit(query, answer)
  \/ WaitForGit
  \/ \E next_answer \in GitAnswers : GitExits(next_answer)

\* the thread keeps running and time keeps passing
SpecGit == Init /\ [][NextGit]_vars /\ WF_vars(NextGit)

(***************************************************************************)
(* The watcher thread: _queue_change, statement by statement.              *)
(***************************************************************************)
\* lines 64-82: the event is accepted and its FileChangeInfo built
Arrive(p, ct) ==
  /\ watcher.pc = "idle"
  /\ clock.events < MaxEvents
  /\ watcher' = [pc |-> "store", file_path |-> p,
                 change_info |-> [n |-> clock.events + 1, change_type |-> ct]]
  /\ clock' = [events |-> clock.events + 1, gap |-> 0,
               rapid |-> clock.rapid /\ (clock.events = 0 \/ clock.gap < BatchDelay)]
  /\ accepted' = Append(accepted, [file_path |-> p, change_type |-> ct])
  /\ UNCHANGED <<batch_changes, batch_timer, timers, delivered>>
  /\ UNCHANGED <<coreVars, extVars, restVars>>

\* line 84
StoreChange ==
  /\ watcher.pc = "store"
  /\ batch_changes' = PutChange(batch_changes, watcher.file_path, watcher.change_info)
  /\ watcher' = [watcher EXCEPT !.pc = "cancel"]
  /\ UNCHANGED <<batch_timer, timers, clock, accepted, delivered>>
  /\ UNCHANGED <<coreVars, extVars, restVars>>

\* lines 87-88
CancelPending ==
  /\ watcher.pc = "cancel"
  /\ timers' = CancelTimer(timers, batch_timer)
  /\ watcher' = [watcher EXCEPT !.pc = "arm"]
  /\ UNCHANGED <<batch_changes, batch_timer, clock, accepted, delivered>>
  /\ UNCHANGED <<coreVars, extVars, restVars>>

\* lines 90-91
ArmTimer ==
  /\ watcher.pc = "arm"
  /\ batch_timer' = watcher.change_info.n
  /\ timers' = [timers EXCEPT ![watcher.change_info.n] =
                  [state |-> "waiting", left |-> BatchDelay, changes |-> EmptyBatch]]
  /\ watcher' = IdleWatcher
  /\ UNCHANGED <<batch_changes, clock, accepted, delivered>>
  /\ UNCHANGED <<coreVars, extVars, restVars>>

\* one second passes
Elapse ==
  /\ watcher.pc = "idle"
  /\ clock.gap < BatchDelay \/ \E t \in TimerIds : timers[t].state = "waiting" /\ timers[t].left > 0
  /\ clock' = [clock EXCEPT !.gap = IF @ < BatchDelay THEN @ + 1 ELSE @]
  /\ timers' = [t \in TimerIds |->
                  IF timers[t].state = "waiting" /\ timers[t].left > 0
                  THEN [timers[t] EXCEPT !.left = @ - 1] ELSE timers[t]]
  /\ UNCHANGED <<batch_changes, batch_timer, watcher, accepted, delivered>>
  /\ UNCHANGED <<coreVars, extVars, restVars>>

(***************************************************************************)
(* A timer thread: _process_batch_changes, statement by statement.         *)
(***************************************************************************)
\* the interval is over and the timer was not cancelled
Fire(t) ==
  /\ timers[t].state = "waiting" /\ timers[t].left = 0
  /\ timers' = [timers EXCEPT ![t].state = "check"]
  /\ UNCHANGED <<batch_changes, batch_timer, watcher, clock, accepted, delivered>>
  /\ UNCHANGED <<coreVars, extVars, restVars>>

\* line 95
CheckPending(t) ==
  /\ timers[t].state = "check"
  /\ timers' = [timers EXCEPT ![t].state =
                  IF batch_changes = EmptyBatch THEN "done" ELSE "copy"]
  /\ UNCHANGED <<batch_changes, batch_timer, watcher, clock, accepted, delivered>>
  /\ UNCHANGED <<coreVars, extVars, restVars>>

\* line 96
CopyPending(t) ==
  /\ timers[t].state = "copy"
  /\ timers' = [timers EXCEPT ![t].state = "clear", ![t].changes = batch_changes]
  /\ UNCHANGED <<batch_changes, batch_timer, watcher, clock, accepted, delivered>>
  /\ UNCHANGED <<coreVars, extVars, restVars>>

\* line 97
ClearPending(t) ==
  /\ timers[t].state = "clear"
  /\ batch_changes' = EmptyBatch
  /\ timers' = [timers EXCEPT ![t].state = "spawn"]
  /\ UNCHANGED <<batch_timer, watcher, clock, accepted, delivered>>
  /\ UNCHANGED <<coreVars, extVars, restVars>>

\* lines 100-104
SpawnProcessor(t) ==
  /\ timers[t].state = "spawn"
  /\ delivered' = Append(delivered, timers[t].changes)
  /\ timers' = [timers EXCEPT ![t].state = "done", ![t].changes = EmptyBatch]
  /\ UNCHANGED <<batch_changes, batch_timer, watcher, clock, accepted>>
  /\ UNCHANGED <<coreVars, extVars, restVars>>

NextWatch ==
  \/ \E p \in WatchPaths, ct \in ChangeTypes : Arrive(p, ct)
  \/ StoreChange
  \/ CancelPending
  \/ ArmTimer
  \/ Elapse
  \/ \E t \in TimerIds : Fire(t)
  \/ \E t \in TimerIds : CheckPending(t)
  \/ \E t \in TimerIds : CopyPending(t)
  \/ \E t \in TimerIds : ClearPending(t)
  \/ \E t \in TimerIds : SpawnProcessor(t)

SpecWatch == Init /\ [][NextWatch]_vars

(***************************************************************************)
(* The watcher thread delivering raw events and the timers running out,    *)
(* each handled in one piece.                                              *)
(***************************************************************************)
\* how many changes the event stores
QueuedBy(ev) ==
  IF ev.is_directory THEN 0
  ELSE (IF ShouldMonitorFile(ev.src_path) THEN 1 ELSE 0)
       + (IF ev.kind = "moved" /\ ShouldMonitorFile(ev.dest_path) THEN 1 ELSE 0)

\* SmartFileHandler.on_modified / on_created / on_deleted / on_moved
RawEvent(ev) ==
  /\ watcher.pc = "idle"
  /\ budget.calls > 0
  /\ clock.events + QueuedBy(ev) <= MaxEvents
  /\ \E r \in {OnEventOf([batch_changes |-> batch_changes, batch_timer |-> batch_timer,
                        timers |-> timers, events |-> clock.events, queued |-> <<>>], ev)} :
      /\ batch_changes' = r.batch_changes
      /\ batch_timer' = r.batch_timer
      /\ timers' = r.timers
      /\ clock' = IF r.queued = <<>> THEN clock
                  ELSE [events |-> r.events, gap |-> 0,
                        rapid |-> clock.rapid /\ (clock.events = 0 \/ clock.gap < BatchDelay)]
      /\ accepted' = accepted \o r.queued
      /\ budget' = Spend("none")
      /\ last' = [NoCall EXCEPT !.op = "event", !.event = ev]
      /\ UNCHANGED <<watcher, delivered>>
      /\ UNCHANGED <<disk, mtime, head, importable, store, mgr, saved>>
      /\ UNCHANGED <<extVars, restVars>>

\* a timer whose interval is over runs _process_batch_changes, in one piece
ProcessBatchChanges(t) ==
  /\ timers[t].state = "waiting" /\ timers[t].left = 0
  /\ timers' = [timers EXCEPT ![t].state = "done"]
  /\ batch_changes' = EmptyBatch
  /\ delivered' = IF batch_changes = EmptyBatch THEN delivered
                  ELSE Append(delivered, batch_changes)
  /\ UNCHANGED <<batch_timer, watcher, clock, accepted>>
  /\ UNCHANGED <<coreVars, extVars, restVars>>

NextFilter ==
  \/ \E ev \in RawEvents : RawEvent(ev)
  \/ Elapse
  \/ \E t \in TimerIds : ProcessBatchChanges(t)

SpecFilter == Init /\ [][NextFilter]_vars

(***************************************************************************)
(* The watcher lifecycle of the updater.                                   *)
(***************************************************************************)
monVars == <<updater, observers, watch_env>>

\* the environment of the watchers changes
SetWatchEnv(e) ==
  /\ e # watch_env
  /\ watch_env' = e
  /\ last' = EnvCall(TRUE)
  /\ UNCHANGED <<disk, mtime, head, importable, store, mgr, saved, budget>>
  /\ UNCHANGED <<updater, observers, current_branch, writers, completed>>
  /\ UNCHANGED <<watchVars, restVars>>

\* SmartIncrementalUpdater.start_monitoring
StartMonitoring ==
  LET r == StartMonitoringOf(updater, observers, watch_env)
  IN  /\ budget.calls > 0
      /\ updater' = r.U
      /\ observers' = r.observers
      /\ budget' = Spend("none")
      /\ last' = [NoCall EXCEPT !.op = "start", !.manager = "updater",
                    !.raised = r.raised, !.error = r.error, !.ok = ~r.raised,
                    !.was = updater.monitoring, !.after = Prior]
      /\ UNCHANGED <<disk, mtime, head, importable, store, mgr, saved>>
      /\ UNCHANGED <<watch_env, current_branch, writers, completed>>
      /\ UNCHANGED <<watchVars, restVars>>

\* SmartIncrementalUpdater.stop_monitoring
StopMonitoring ==
  LET r == StopMonitoringOf(updater, observers)
  IN  /\ budget.calls > 0
      /\ updater' = r.U
      /\ observers' = r.observers
      /\ budget' = Spend("none")
      /\ last' = [NoCall EXCEPT !.op = "stop", !.manager = "updater", !.ok = TRUE,
                    !.was = updater.monitoring]
      /\ UNCHANGED <<disk, mtime, head, importable, store, mgr, saved>>
      /\ UNCHANGED <<watch_env, current_branch, writers, completed>>
      /\ UNCHANGED <<watchVars, restVars>>

\* SmartIncrementalUpdater.force_update
ForceUpdate(fault) ==
  LET pid == GetProjectId(mgr["updater"], ProjectRoot)
      r == ForceUpdateOf(updater, observers, watch_env, store, mgr["updater"],
                         disk, mtime, fault)
  IN  /\ budget.calls > 0
      /\ updater' = r.U
      /\ observers' = r.observers
      /\ store' = r.S
      /\ mgr' = [mgr EXCEPT !["updater"] = r.M]
      /\ saved' = IF r.saved THEN [saved EXCEPT ![pid] = AnalyzeProject(disk, mtime)]
                  ELSE saved
      /\ budget' = Spend(fault)
      /\ last' = [NoCall EXCEPT !.op = "force", !.manager = "updater", !.pid = pid,
                    !.fault = fault, !.raised = r.raised, !.error = r.error,
                    !.ok = r.saved, !.status = r.status, !.was = updater.monitoring,
                    !.monitoring_restarted = r.monitoring_restarted]
      /\ UNCHANGED <<disk, mtime, head, importable>>
      /\ UNCHANGED <<watch_env, current_branch, writers, completed>>
      /\ UNCHANGED <<watchVars, restVars>>

NextMonitor ==
  \/ \E e \in WatchEnvs : SetWatchEnv(e)
  \/ StartMonitoring
  \/ StopMonitoring
  \/ \E fault \in FaultChoices({"none", "builder", "commit"}) : ForceUpdate(fault)

SpecMonitor == Init /\ [][NextMonitor]_vars

(***************************************************************************)
(* Properties of the Memory Manager (specification Spec).                  *)
(***************************************************************************)
NoFaultYet == budget.faults = MaxFaults

UpdaterId == Md5(ProjectKey(ProjectRoot))

\* C1: after save_project(g) returned success, the next load_project of the
\* same identity returns a graph with g's file-path set, g's entity-key set
\* and as many edges as g, whichever store serves the load.
SaveLoadRoundTrip ==
  (/\ last.op = "load" /\ last.manager = "updater"
   /\ saved[last.pid].tag = "graph" /\ NoFaultYet)
  => /\ last.ok
     /\ FileKeys(last.kg) = FileKeys(saved[last.pid])
     /\ last.kg.entities = saved[last.pid].entities
     /\ Cardinality(last.kg.edges) = Cardinality(saved[last.pid].edges)

\* C2: a save_project in which any step raises returns failure, leaves the
\* relational rows exactly as they were before the call, and leaves the
\* cache entry and its timestamp of the identity unchanged.
FailedSaveRollsBack ==
  [][(last'.op = "save" /\ last'.fault # "none")
     => /\ ~last'.ok
        /\ RelationalRows(store') = RelationalRows(store)
        /\ mgr'[last'.manager].cache[last'.pid] = mgr[last'.manager].cache[last'.pid]
        /\ mgr'[last'.manager].age[last'.pid] = mgr[last'.manager].age[last'.pid]]_vars

\* a save failed at the dependencies step, over rows of an earlier save
FailedSaveOverRows ==
  /\ last.op = "save" /\ last.fault = "dependencies" /\ ~last.ok
  /\ \E r \in store.projects : r.id = last.pid
  /\ \E r \in store.files : r.project_id = last.pid
  /\ AnalyzeProject(disk, mtime).files # saved[last.pid].files

\* C3: load_project decides in the order cache (when asked for and younger
\* than the TTL), snapshot (when none of its files is newer on disk, and then
\* re-cached), reconstruction from the rows, absent; an entry of age >= TTL
\* and a snapshot with a newer file are never returned.
LoadPriorityOrder ==
  [][(last'.op = "load" /\ last'.manager = "updater")
     => LET M == mgr["updater"]
            pid == last'.pid
            hit == (last'.use_cache /\ M.cache[pid].tag = "graph" /\ M.age[pid] < CacheTtl)
            snap == store.snap[pid].tag = "graph"
                    /\ \A p \in FileKeys(store.snap[pid]) :
                          disk[p] # Absent => mtime[p] <= store.snap[pid].files[p].last_modified
            row == \E r \in store.projects : r.id = pid
        IN  /\ hit => last'.src = "cache" /\ last'.kg = M.cache[pid]
            /\ (~hit /\ snap)
                 => /\ last'.src = "snapshot" /\ last'.kg = store.snap[pid]
                    /\ mgr'["updater"].cache[pid] = store.snap[pid]
            /\ (~hit /\ ~snap /\ row)
                 => /\ last'.src = "database"
                    /\ FileKeys(last'.kg) = {r.file_path : r \in {x \in store.files : x.project_id = pid}}
            /\ (~hit /\ ~snap /\ ~row) => last'.src = "absent" /\ ~last'.ok]_vars

(***************************************************************************)
(* Properties of the Multi-Branch Manager (specification SpecBranch).      *)
(***************************************************************************)
RowsOf(S, i) ==
  [files |-> {r \in S.files : r.project_id = i},
   entities |-> {r \in S.entities : r.project_id = i},
   dependencies |-> {r \in S.dependencies : r.project_id = i}]

\* C4: after successful saves under the identities of two branches of one
\* root (and under the unpartitioned identity), everything persisted for the
\* first - project row, file rows, snapshot - is still there and unchanged.
BranchDataSurvives ==
  NoFaultYet
  => \A i \in Ids :
       saved[i].tag = "graph"
       => /\ \E r \in store.projects : r.id = i /\ r.version = saved[i].version
          /\ {r.file_path : r \in RowsOf(store, i).files} = FileKeys(saved[i])
          /\ store.snap[i] = saved[i]

Stamp(b) == <<b, "#", SubSeq(head, 1, CommitPrefixLen)>>

Fresh(b, force) ==
  LET ld == LoadBranchProject(store, mgr["branch"], b, disk, mtime, importable)
  IN  ~force /\ ld.kg.tag = "graph" /\ ld.kg.version = Stamp(b)

Built(b) == [AnalyzeProject(disk, mtime) EXCEPT !.version = Stamp(b)]

\* what a call may not write for an identity other than the one it serves
OthersNotWritten(pid) ==
  \A i \in Ids \ {pid} :
    /\ store'.snap[i] = store.snap[i]
    /\ RowsOf(store', i) = RowsOf(store, i)
    /\ {r \in store'.projects : r.id = i} \subseteq store.projects

SecondAnalysisUpToDate ==
  (/\ last.op = "analyze" /\ ~last.force /\ NoFaultYet
   /\ last.after \in {"analyzed", "up_to_date"})
  => last.status = "up_to_date"

(***************************************************************************)
(* Properties of the file watcher (specification SpecWatch).               *)
(***************************************************************************)
Quiescent ==
  /\ watcher.pc = "idle"
  /\ \A t \in TimerIds : timers[t].state \in {"unused", "cancelled", "done"}

\* the accepted event that is the latest of its path, 0 when there is none
LatestOf(p) ==
  LET ns == {n \in 1..Len(accepted) : accepted[n].file_path = p}
  IN  IF ns = {} THEN 0 ELSE CHOOSE n \in ns : \A m \in ns : m <= n

LatestBatch ==
  [p \in WatchPaths |->
     IF LatestOf(p) = 0 THEN NoChange
     ELSE [n |-> LatestOf(p), change_type |-> accepted[LatestOf(p)].change_type]]

BatchesWith(n) == {i \in 1..Len(delivered) : \E p \in WatchPaths : delivered[i][p].n = n}

NoEventLostOrDuplicated ==
  /\ \A n \in 1..Len(accepted) : Cardinality(BatchesWith(n)) <= 1
  /\ Quiescent
      => \A p \in WatchPaths : LatestOf(p) # 0 => Cardinality(BatchesWith(LatestOf(p))) = 1

(***************************************************************************)
(* Properties of batch application (specification SpecBatch).              *)
(***************************************************************************)
EntitiesOf(kg, p) == {e \in kg.entities : e[1] = p}

\* the graph the batch of this step works on
LoadedForBatch ==
  LoadProject(store, mgr["updater"], ProjectRoot, TRUE, disk, mtime, importable).kg

\* C9: a batch that classifies an analysed path p as deleted removes p's
\* FileNode and p's entities, leaves the FileNodes and entities of the paths
\* outside the batch as they were, and the persisted graph after the batch
\* shows exactly that.
DeletedFileRemoved ==
  [][(last'.op = "batch" /\ last'.fault = "none" /\ LoadedForBatch.tag = "graph")
     => \A p \in FileKeys(LoadedForBatch) :
          last'.changes[p] = "deleted"
          => LET g == LoadedForBatch
                 after == store'.snap[last'.pid]
             IN  /\ p \notin FileKeys(last'.kg) /\ EntitiesOf(last'.kg, p) = {}
                 /\ after.tag = "graph"
                 /\ p \notin FileKeys(after) /\ EntitiesOf(after, p) = {}
                 /\ \A r \in store'.files : ~(r.project_id = last'.pid /\ r.file_path = p)
                 /\ \A q \in FileKeys(g) :
                      last'.changes[q] = "none"
                      => /\ q \in FileKeys(after) /\ after.files[q] = g.files[q]
                         /\ EntitiesOf(after, q) = EntitiesOf(g, q)]_vars

\* C10: a batch that classifies p as created or modified while p exists on
\* disk re-analyses p: afterwards the graph's FileNode of p carries the hash
\* of the current content and p's entities are those of the current content.
ChangedFileReanalysed ==
  [][(last'.op = "batch" /\ last'.fault = "none")
     => \A p \in Paths :
          (last'.changes[p] \in {"created", "modified"} /\ disk[p] # Absent)
          => /\ p \in FileKeys(last'.kg)
             /\ last'.kg.files[p].file_hash = ContentHash(disk[p])
             /\ EntitiesOf(last'.kg, p) = {<<p, n>> : n \in DeclaredNames(disk[p])}]_vars

\* C11: every batch application that loaded a persisted graph runs to its
\* end: after the per-file changes and the refresh of the touched files it
\* attempts one save of the mutated graph, whatever the batch holds.
BatchRunsToSave ==
  [][(last'.op = "batch" /\ LoadedForBatch.tag = "graph")
     => last'.status \in {"saved", "save_failed"}]_vars

(***************************************************************************)
(* Further properties of the Memory Manager (specification Spec).          *)
(***************************************************************************)
\* C15: the snapshot of the identity is written only after the relational
\* transaction has committed, so a save_project that fails leaves the stored
\* snapshot exactly as it was.
SnapshotAfterCommit ==
  [][(last'.op = "save" /\ ~last'.ok) => store'.snap = store.snap]_vars

\* C16: when the cache does not serve the load, the snapshot of the identity
\* is corrupt or stale, and the rows are those of a successful save,
\* load_project returns a graph rebuilt from the rows, with the saved
\* file-path set and entity-key set.
RelationalFallback ==
  [][(/\ last'.op = "load" /\ last'.manager = "updater"
      /\ saved[last'.pid].tag = "graph"
      /\ ~CacheHit(mgr["updater"], last'.pid, last'.use_cache)
      /\ \/ store.snap[last'.pid].tag = "corrupt"
         \/ /\ store.snap[last'.pid].tag = "graph"
            /\ ~IsCacheValid(store.snap[last'.pid], disk, mtime))
     => /\ last'.ok /\ last'.src = "database"
        /\ FileKeys(last'.kg) = FileKeys(saved[last'.pid])
        /\ last'.kg.entities = saved[last'.pid].entities]_vars

(***************************************************************************)
(* Properties of the watcher lifecycle (specification SpecMonitor).        *)
(***************************************************************************)
Running(obs) == {i \in 1..Len(obs) : obs[i].state \notin {"stopped"}}

\* C12: force_update stops monitoring before the re-analysis and, when it
\* ends - also when the re-analysis or the save fails - monitoring is active
\* exactly when it was active before; monitoring_restarted is true exactly
\* when monitoring was restarted.
ForceUpdateKeepsMonitoring ==
  [][(last'.op = "force")
     => /\ updater'.monitoring = updater.monitoring
        /\ updater'.monitoring => Running(observers') = {updater'.observer}
        /\ ~last'.raised
             => (last'.monitoring_restarted
                   <=> (updater.monitoring /\ updater'.observer # updater.observer))]_vars

\* C13: start_monitoring while monitoring and stop_monitoring while idle
\* change nothing; a start from idle that returns ends in monitoring with a
\* running watcher; a stop from monitoring stops the watcher and ends idle.
MonitoringStateMachine ==
  [][/\ (last'.op = "start" /\ updater.monitoring)
          => ~last'.raised /\ UNCHANGED monVars
     /\ (last'.op = "stop" /\ ~updater.monitoring) => UNCHANGED monVars
     /\ (last'.op = "start" /\ ~updater.monitoring /\ ~last'.raised)
          => /\ updater'.monitoring
             /\ updater'.observer \in 1..Len(observers')
             /\ observers'[updater'.observer].state = "running"
             /\ Running(observers') = {updater'.observer}
     /\ (last'.op = "stop" /\ updater.monitoring)
          => /\ ~updater'.monitoring
             /\ observers'[updater.observer].state = "stopped"
             /\ Running(observers') = {}]_vars

\* start_monitoring was called while monitoring
StartWhileMonitoring ==
  last.op = "start" /\ last.was /\ updater.monitoring /\ Len(observers) = 1

FirstHealthy(cands, env) ==
  LET ok == {i \in 1..Len(cands) : env.health[cands[i]] = "ok"}
  IN  IF ok = {} THEN 0 ELSE CHOOSE i \in ok : \A j \in ok : i <= j

\* C14: start_monitoring from idle tries the native watcher first and the
\* polling watcher only when the native one failed (the polling watcher alone
\* under the force-polling flag); the first that starts becomes the watcher
\* and monitoring becomes true; if none starts the call raises with the last
\* failure, monitoring stays false and no candidate is left running, so that
\* a later call can succeed.
StartTriesNativeThenPolling ==
  [][(last'.op = "start" /\ ~updater.monitoring)
     => LET cands == CandidateObservers(watch_env.flag)
            k == FirstHealthy(cands, watch_env)
            made == SubSeq(observers', Len(observers) + 1, Len(observers'))
        IN  /\ cands = IF watch_env.flag \in {"", "No"}
                       THEN <<"Observer", "PollingObserver">> ELSE <<"PollingObserver">>
            /\ last'.raised <=> k = 0
            /\ k # 0
                 => /\ updater'.monitoring
                    /\ updater'.observer = Len(observers')
                    /\ observers'[updater'.observer] = [cls |-> cands[k], state |-> "running"]
                    /\ updater'.observer_class = cands[k]
                    /\ \A i \in 1..Len(made) - 1 :
                         \E j \in 1..(k - 1) : made[i].cls = cands[j]
            /\ k = 0
                 => /\ ~updater'.monitoring /\ updater' = updater
                    /\ last'.error = [cls |-> cands[Len(cands)],
                                       step |-> watch_env.health[cands[Len(cands)]]]
            /\ Running(observers') \subseteq {updater'.observer}
            /\ \A i \in 1..Len(observers) : observers'[i] = observers[i]]_vars

\* a start that succeeds with the polling watcher after a start that raised
StartRecovers ==
  /\ last.op = "start" /\ ~last.raised /\ last.after = "start_raised"
  /\ updater.monitoring /\ updater.observer_class = "PollingObserver"
  /\ \E i \in 1..Len(observers) : observers[i].state = "stopped"

(***************************************************************************)
(* Properties of the cache (specification SpecCache).                      *)
(***************************************************************************)
Cached(M) == {i \in Ids : M.cache[i].tag = "graph"}

\* C17: after any sequence of save_project and load_project calls over any
\* number of identities, the cache of a ProjectMemoryManager holds at most
\* max_cache_size entries.
CacheBounded ==
  \A m \in Managers : Cardinality(Cached(mgr[m])) <= MaxCacheSize

(***************************************************************************)
(* Properties of switching (SpecSwitch) and comparing (SpecCompare).        *)
(***************************************************************************)
\* C18: switch_to_branch_analysis checks the ref, checks out, updates
\* current_branch and forces an analysis, each step only after the one before
\* succeeded: when the ref does not exist or the checkout fails the call
\* returns an error result without raising, current_branch is unchanged, the
\* Builder has not run and nothing is persisted; otherwise current_branch is
\* the target and the target has been analysed with force.
SwitchStepsInOrder ==
  [][(last'.op = "switch" /\ last'.fault # "no_git")
     => LET target == last'.target
            stopped == target \notin Refs \/ last'.fault = "checkout"
        IN  /\ ~last'.raised
            /\ stopped
                 => /\ last'.status = "error"
                    /\ last'.error.step
                         = (IF target \notin Refs THEN "show-ref" ELSE "checkout")
                    /\ current_branch' = current_branch /\ head' = head
                    /\ ~last'.builder
                    /\ store' = store /\ mgr' = mgr
            /\ ~stopped
                 => /\ current_branch' = target
                    /\ last'.builder
                    /\ last'.status \in {"analyzed", "failed"}
                    /\ last'.status = "analyzed"
                         => store'.snap[GenerateBranchProjectId(target)].version
                              = VersionString(target, head')]_vars

\* a checkout that failed after an earlier switch had succeeded
CheckoutFailedAfterSwitch ==
  /\ last.op = "switch" /\ last.fault = "checkout" /\ last.status = "error"
  /\ current_branch = "dev" /\ last.target = "main"
  /\ saved[GenerateBranchProjectId("dev")].tag = "graph"

\* C19: compare_branches, when the graphs of both branches load with file
\* sets F1, F2 and entity-key sets E1, E2, returns added = F2 \ F1, removed
\* = F1 \ F2, the size of F1 \cap F2, and E2 \ E1, E1 \ E2; when a graph is
\* absent it returns an error telling which one and no difference.
CompareIsSetDifference ==
  [][(last'.op = "compare")
     => LET l1 == LoadBranchProject(store, mgr["branch"], last'.branch, disk, mtime, importable)
            l2 == LoadBranchProject(l1.S, l1.M, last'.branch2, disk, mtime, importable)
            F1 == FileKeys(l1.kg)
            F2 == FileKeys(l2.kg)
            E1 == l1.kg.entities
            E2 == l2.kg.entities
            d == last'.diff
        IN  /\ last'.loaded = <<l1.kg.tag = "graph", l2.kg.tag = "graph">>
            /\ (l1.kg.tag = "graph" /\ l2.kg.tag = "graph")
                 => /\ last'.status = "success"
                    /\ d.file_added = {p \in F2 : p \notin F1}
                    /\ d.file_removed = {p \in F1 : p \notin F2}
                    /\ d.modified = Cardinality({p \in F1 : p \in F2})
                    /\ d.entity_added = {k \in E2 : k \notin E1}
                    /\ d.entity_removed = {k \in E1 : k \notin E2}
                    /\ d.file_added \cap d.file_removed = {}
                    /\ d.entity_added \cap d.entity_removed = {}
                    /\ last'.branch = last'.branch2
                         => /\ d.file_added = {} /\ d.file_removed = {}
                            /\ d.entity_added = {} /\ d.entity_removed = {}
            /\ ~(l1.kg.tag = "graph" /\ l2.kg.tag = "graph")
                 => last'.status = "error" /\ d = NoDiff]_vars

\* two branches analysed over different trees were compared
ComparedDifferentTrees ==
  /\ last.op = "compare" /\ last.status = "success"
  /\ last.diff.file_removed # {} /\ last.diff.modified > 0

(***************************************************************************)
(* Properties of the branch side-file (specification SpecSide).            *)
(***************************************************************************)
\* C20: after any interleaving of successful branch analyses the side-file
\* holds an entry for every (project, branch) pair that was successfully
\* analysed: writing one branch's entry removes no other entry.
SideFileKeepsEveryBranch ==
  \A c \in completed :
    \E e \in store.branch_contexts :
      e.project_root = c.project_root /\ e.branch_name = c.branch_name

(***************************************************************************)
(* Properties of the Builder (specification SpecBuild).                    *)
(***************************************************************************)
ScenarioA == [p \in BuildPaths |-> IF p = "a.py" THEN "foo" ELSE "from_a"]

ImportEdges(kg) == {e \in kg.edges : e.relation_type = "imports"}

\* C21: the analysis of a project of a.py holding `def foo(): pass` and b.py
\* holding `from a import foo` gives a graph with exactly two file nodes, the
\* entity a.py:foo, and exactly one imports edge, from b.py to a.py, of
\* strength 0.8.
ScenarioAGraph ==
  (analysis.done /\ tree = ScenarioA)
  => /\ FileKeys(analysis.kg) = {"a.py", "b.py"}
     /\ <<"a.py", "foo">> \in analysis.kg.entities
     /\ ImportEdges(analysis.kg)
          = {[from |-> FileNodeId("b.py"), to |-> FileNodeId("a.py"),
              relation_type |-> "imports"]}
     /\ \A e \in ImportEdges(analysis.kg) : Strength(e.relation_type) = 8

\* C22: after analyze_project the four buckets low/medium/high/extreme, cut
\* at the risk scores 0.3, 0.6 and 0.8, partition the analysed files: every
\* file is counted in exactly one bucket and the buckets add up to
\* context.total_files.
HistogramPartitionsFiles ==
  analysis.done
  => LET d == analysis.context.complexity_distribution
         F == FileKeys(analysis.kg)
         risk == analysis.risk
     IN  /\ analysis.context.total_files = Cardinality(F)
         /\ d["low"] + d["medium"] + d["high"] + d["extreme"]
              = analysis.context.total_files
         /\ d["low"] = Cardinality({p \in F : risk[p] < 3 * Tenth})
         /\ d["medium"] = Cardinality({p \in F : 3 * Tenth <= risk[p] /\ risk[p] < 6 * Tenth})
         /\ d["high"] = Cardinality({p \in F : 6 * Tenth <= risk[p] /\ risk[p] < 8 * Tenth})
         /\ d["extreme"] = Cardinality({p \in F : 8 * Tenth <= risk[p]})

\* two files were analysed, one of score 1.0 and one in the lowest bucket
ExtremeAndLowCounted ==
  /\ analysis.done
  /\ analysis.context.total_files = 2
  /\ \E p \in FileKeys(analysis.kg) : analysis.risk[p] = 10 * Tenth
  /\ analysis.context.complexity_distribution["low"] = 1
  /\ analysis.context.complexity_distribution["extreme"] = 1

Indicator(b) == IF b THEN 1 ELSE 0

\* C23: the risk score of every file is min(1.0, 0.3*[size > 10000] +
\* 0.4*[lines > 500] + 0.3*[entities > 20] + 0.2*[imports > 15]), the
\* comparisons being strict (a value at its threshold adds nothing); it lies
\* within [0, 1], and a file over all four thresholds scores exactly 1.0.
RiskScoreIsSaturatingSum ==
  analysis.done
  => \A p \in FileKeys(analysis.kg) :
       LET m == measured[p]
           s == FloatAdd(FloatAdd(FloatAdd(3 * Tenth * Indicator(m.size_bytes > 10000),
                                           4 * Tenth * Indicator(m.line_count > 500)),
                                  3 * Tenth * Indicator(m.entities > 20)),
                         2 * Tenth * Indicator(m.imports > 15))
       IN  /\ analysis.risk[p] = IF s < 10 * Tenth THEN s ELSE 10 * Tenth
           /\ 0 <= analysis.risk[p] /\ analysis.risk[p] <= 10 * Tenth
           /\ (m.size_bytes > 10000 /\ m.line_count > 500 /\ m.entities > 20 /\ m.imports > 15)
                => analysis.risk[p] = 10 * Tenth
           /\ (m.size_bytes <= 10000 /\ m.line_count <= 500 /\ m.entities <= 20 /\ m.imports <= 15)
                => analysis.risk[p] = 0

\* a file over all four thresholds and a file exactly at them were scored
OverAndAtThresholdsScored ==
  /\ analysis.done
  /\ \E p \in FileKeys(analysis.kg) :
        /\ measured[p] = [size_bytes |-> 10001, line_count |-> 501, entities |-> 21, imports |-> 16]
        /\ analysis.risk[p] = 10 * Tenth
  /\ \E p \in FileKeys(analysis.kg) :
        /\ measured[p] = [size_bytes |-> 10000, line_count |-> 500, entities |-> 20, imports |-> 15]
        /\ analysis.risk[p] = 0

(***************************************************************************)
(* Properties of the event filter (specification SpecFilter).              *)
(***************************************************************************)
pendVars == <<batch_changes, batch_timer, timers>>

\* C24: a raw event whose path has a deny-listed directory name among its
\* components, whose file name ends with a deny-listed ending, or whose
\* extension is not watchable, is dropped: the pending changes and the timer
\* stay as they are.  A move of a file is a `deleted` of the source path and
\* a `created` of the destination path, each filtered on its own.
DeniedEventsDropped ==
  [][(last'.op = "event" /\ budget'.calls < budget.calls)
     => LET ev == last'.event
            denied(path) ==
              \/ \E i \in 1..Len(path.dirs) : path.dirs[i] \in IgnoreNames
              \/ path.ext \in IgnoreEndings
              \/ path.ext \notin CodeExtensions
            src == PathKey(ev.src_path)
            dest == PathKey(ev.dest_path)
        IN  /\ (ev.kind # "moved" /\ denied(ev.src_path)) => UNCHANGED pendVars
            /\ (ev.kind # "moved" /\ ~denied(ev.src_path) /\ ~ev.is_directory)
                 => batch_changes'[src].change_type = ev.kind
            /\ (ev.kind = "moved" /\ ~ev.is_directory)
                 => /\ (denied(ev.src_path) /\ denied(ev.dest_path)) => UNCHANGED pendVars
                    /\ (~denied(ev.src_path) /\ (denied(ev.dest_path) \/ dest # src))
                         => batch_changes'[src].change_type = "deleted"
                    /\ ~denied(ev.dest_path)
                         => batch_changes'[dest].change_type = "created"
                    /\ \A p \in WatchPaths :
                         (\/ p \notin {src, dest}
                          \/ (p = src /\ p # dest /\ denied(ev.src_path))
                          \/ (p = dest /\ p # src /\ denied(ev.dest_path)))
                         => batch_changes'[p] = batch_changes[p]]_vars

\* a file was moved to a dropped path while a change of another file waits
MovedOutOfSight ==
  /\ last.op = "event" /\ last.event.kind = "moved" /\ ~last.event.is_directory
  /\ ShouldMonitorFile(last.event.src_path) /\ ~ShouldMonitorFile(last.event.dest_path)
  /\ batch_changes[PathKey(last.event.src_path)].change_type = "deleted"
  /\ \E p \in WatchPaths :
        p # PathKey(last.event.src_path) /\ batch_changes[p].change_type = "modified"

(***************************************************************************)
(* Properties of the queries of git (specification SpecGit).               *)
(***************************************************************************)
\* C25: every query of git - current branch, HEAD commit, existence of a
\* ref, checkout, log of a file, diff-stat - ends even when the tool never
\* returns: the call is given up after a bounded wait and the operation goes
\* on with a placeholder, neither blocking nor raising.
GitQueriesTerminate ==
  /\ [](git.outcome # "raised")
  /\ (git.pc = "running") ~> (git.pc = "done")

(***************************************************************************)
(* Properties of the enhanced interface (specification SpecLive).          *)
(***************************************************************************)
\* the graph a load for the current (project, branch) identity returns now
BranchGraphNow ==
  LoadBranchProject(store, mgr["branch"], current_branch, disk, mtime, importable).kg

\* the batch tells what happened to the files
TruthfulBatch(changes) ==
  \A p \in Paths :
    /\ changes[p] = "deleted" => disk[p] = Absent
    /\ changes[p] \in {"created", "modified"} => disk[p] # Absent

\* C26: once analyze_project(root) has persisted the graph of the current
\* branch and monitoring runs, a processed batch is applied to that
\* persisted graph: the graph then loaded for the current (project, branch)
\* identity has lost the deleted files and holds the changed files as they
\* are now.
BatchReachesBranchGraph ==
  (/\ last.op = "batch" /\ updater.monitoring /\ TruthfulBatch(last.changes)
   /\ saved[GenerateBranchProjectId(current_branch)].tag = "graph")
  => /\ BranchGraphNow.tag = "graph"
     /\ \A p \in Paths :
          /\ last.changes[p] = "deleted" => p \notin FileKeys(BranchGraphNow)
          /\ last.changes[p] \in {"created", "modified"}
               => /\ p \in FileKeys(BranchGraphNow)
                  /\ BranchGraphNow.files[p].file_hash = ContentHash(disk[p])

(***************************************************************************)
(* Properties of the identity override of the Multi-Branch Manager.        *)
(***************************************************************************)
\* C27: the override of get_project_id is strictly scoped: whenever
\* _load_branch_project or _save_branch_project has returned - normally,
\* with a failed save, or through its except clause - the manager's
\* get_project_id is the original function again, so a later load or save
\* of the unpartitioned project on that manager uses hash(project_root).
OverrideIsScoped ==
  (last.manager = "branch" /\ last.op \in {"analyze", "load"})
  => /\ mgr["branch"].get_project_id = Original
     /\ GetProjectId(mgr["branch"], ProjectRoot) = Md5(ProjectKey(ProjectRoot))

(***************************************************************************)
(* Two workers of the pool running branch operations on the one manager    *)
(* _get_branch_manager returns for the project.  The statements of         *)
(* _load_branch_project and _save_branch_project are separate steps: no    *)
(* lock is held over them.                                                 *)
(***************************************************************************)
PoolOps == {"load", "save"}

\* multi_branch.py:183 and 200: original_get_project_id = ...get_project_id
ReadBinding(t, op, b) ==
  /\ threads[t].pc = "idle"
  /\ \A u \in Threads \ {t} : threads[u].pc = "idle" \/ threads[u].branch_name # b
  /\ threads' = [threads EXCEPT ![t] =
                   [IdleThread EXCEPT !.pc = "read", !.op = op, !.branch_name = b,
                                      !.original = mgr["branch"].get_project_id]]
  /\ last' = [NoCall EXCEPT !.op = "pool_enter", !.manager = "branch", !.branch = b]
  /\ UNCHANGED <<disk, mtime, head, importable, store, mgr, saved, budget, watchVars, extVars, treeVars, analysis, git, saving, poolVars>>

\* multi_branch.py:184 and 201: get_project_id = lambda x: identity of the branch
Rebind(t) ==
  /\ threads[t].pc = "read"
  /\ mgr' = [mgr EXCEPT !["branch"].get_project_id = threads[t].branch_name]
  /\ threads' = [threads EXCEPT ![t].pc = "bound"]
  /\ last' = [NoCall EXCEPT !.op = "pool_bind", !.manager = "branch",
                !.branch = threads[t].branch_name]
  /\ UNCHANGED <<disk, mtime, head, importable, store, saved, budget>>
  /\ UNCHANGED <<watchVars, extVars, treeVars, analysis, git, saving, poolVars>>

\* multi_branch.py:186: load_project under whatever get_project_id is bound now
PooledLoad(t) ==
  \E r \in {LoadProject(store, mgr["branch"], ProjectRoot, TRUE, disk, mtime, importable)} :
    /\ threads[t].pc = "bound" /\ threads[t].op = "load"
    /\ store' = r.S
    /\ mgr' = [mgr EXCEPT !["branch"] = r.M]
    /\ threads' = [threads EXCEPT ![t].pc = "used",
                                  ![t].pid = GetProjectId(mgr["branch"], ProjectRoot),
                                  ![t].kg = r.kg]
    /\ last' = [NoCall EXCEPT !.op = "pool_load", !.manager = "branch",
                  !.pid = GetProjectId(mgr["branch"], ProjectRoot),
                  !.branch = threads[t].branch_name, !.use_cache = TRUE,
                  !.ok = (r.kg.tag = "graph"), !.src = r.src, !.kg = r.kg]
    /\ UNCHANGED <<disk, mtime, head, importable, saved, budget>>
    /\ UNCHANGED <<watchVars, extVars, treeVars, analysis, git, saving, poolVars>>

\* multi_branch.py:203-207: save_project of the graph analysed for the branch,
\* under whatever get_project_id is bound now, then the side-file
PooledSave(t) ==
  \E kg \in {[AnalyzeProject(disk, mtime) EXCEPT
                !.version = VersionString(threads[t].branch_name, head)]} :
  \E r \in {SaveProject(store, mgr["branch"], kg, "none")} :
    /\ threads[t].pc = "bound" /\ threads[t].op = "save"
    /\ store' = SaveBranchContext(r.S, threads[t].branch_name, head)
    /\ mgr' = [mgr EXCEPT !["branch"] = r.M]
    /\ saved' = [saved EXCEPT ![GetProjectId(mgr["branch"], ProjectRoot)] = kg]
    /\ threads' = [threads EXCEPT ![t].pc = "used",
                                  ![t].pid = GetProjectId(mgr["branch"], ProjectRoot),
                                  ![t].kg = kg]
    /\ last' = [NoCall EXCEPT !.op = "pool_save", !.manager = "branch",
                  !.pid = GetProjectId(mgr["branch"], ProjectRoot),
                  !.branch = threads[t].branch_name, !.ok = r.ok, !.builder = TRUE,
                  !.kg = kg]
    /\ UNCHANGED <<disk, mtime, head, importable, budget>>
    /\ UNCHANGED <<watchVars, extVars, treeVars, analysis, git, saving, poolVars>>

\* multi_branch.py:189 and 210: get_project_id = original_get_project_id
RestoreBinding(t) ==
  /\ threads[t].pc = "used"
  /\ mgr' = [mgr EXCEPT !["branch"].get_project_id = threads[t].original]
  /\ threads' = [threads EXCEPT ![t] = IdleThread]
  /\ last' = [NoCall EXCEPT !.op = "pool_return", !.manager = "branch",
                !.pid = threads[t].pid, !.branch = threads[t].branch_name]
  /\ UNCHANGED <<disk, mtime, head, importable, store, saved, budget>>
  /\ UNCHANGED <<watchVars, extVars, treeVars, analysis, git, saving, poolVars>>

NextPool ==
  \/ \E t \in Threads, op \in PoolOps, b \in Branches : ReadBinding(t, op, b)
  \/ \E t \in Threads : Rebind(t)
  \/ \E t \in Threads : PooledLoad(t)
  \/ \E t \in Threads : PooledSave(t)
  \/ \E t \in Threads : RestoreBinding(t)

SpecPool == Init /\ [][NextPool]_vars

\* C28: in every interleaving of two branch operations of branches b1 # b2
\* on the same manager, each operation's load and save use the identity of
\* its own branch, a graph analysed for b1 is never stored under the
\* identity of b2, and once both have finished the manager's identity
\* function is the original one.
PooledIdentityIsOwn ==
  /\ last.op \in {"pool_load", "pool_save"} => last.pid = GenerateBranchProjectId(last.branch)
  /\ \A b \in Branches :
       store.snap[GenerateBranchProjectId(b)].tag = "graph"
         => store.snap[GenerateBranchProjectId(b)].version[1] = b
  /\ (\A t \in Threads : threads[t].pc = "idle") => mgr["branch"].get_project_id = Original

(***************************************************************************)
(* save_project statement by statement, with load_project running on       *)
(* another thread.  The rows written inside the transaction are seen by    *)
(* other connections only after COMMIT; the snapshot file is an ordinary   *)
(* file, seen as soon as it is written.                                    *)
(***************************************************************************)
\* project_memory.py:186-201: the identity is computed, BEGIN TRANSACTION, and
\* the rows of the graph are written inside the transaction
BeginSave ==
  \E kg \in {AnalyzeProject(disk, mtime)} :
    /\ saving.pc = "idle"
    /\ budget.calls > 0
    /\ saving' = [pc |-> "begun", pid |-> GetProjectId(mgr["updater"], ProjectRoot),
                  kg |-> kg, before |-> saved[GetProjectId(mgr["updater"], ProjectRoot)]]
    /\ budget' = [budget EXCEPT !.calls = @ - 1]
    /\ last' = [NoCall EXCEPT !.op = "begin_save", !.manager = "updater"]
    /\ UNCHANGED <<disk, mtime, head, importable, store, mgr, saved>>
    /\ UNCHANGED <<watchVars, extVars, treeVars, analysis, git, threads, poolVars>>

\* project_memory.py:205: open(cache_file, 'wb') leaves an empty file
OpenSnapshot ==
  /\ saving.pc = "begun"
  /\ store' = [store EXCEPT !.snap[saving.pid] = CorruptBlob]
  /\ saving' = [saving EXCEPT !.pc = "opened"]
  /\ last' = [NoCall EXCEPT !.op = "open_snapshot", !.manager = "updater"]
  /\ UNCHANGED <<disk, mtime, head, importable, mgr, saved, budget>>
  /\ UNCHANGED <<watchVars, extVars, treeVars, analysis, git, threads, poolVars>>

\* project_memory.py:206: pickle.dump writes the graph and the file is closed
DumpSnapshot ==
  /\ saving.pc = "opened"
  /\ store' = [store EXCEPT !.snap[saving.pid] = saving.kg]
  /\ saving' = [saving EXCEPT !.pc = "dumped"]
  /\ last' = [NoCall EXCEPT !.op = "dump_snapshot", !.manager = "updater"]
  /\ UNCHANGED <<disk, mtime, head, importable, mgr, saved, budget>>
  /\ UNCHANGED <<watchVars, extVars, treeVars, analysis, git, threads, poolVars>>

\* project_memory.py:208-220: COMMIT and the memory cache, or ROLLBACK when
\* COMMIT raises
CommitSave(fault) ==
  /\ saving.pc = "dumped"
  /\ \E r \in {SaveProject(store, mgr["updater"], saving.kg, fault)} :
    /\ store' = r.S
    /\ mgr' = [mgr EXCEPT !["updater"] = r.M]
    /\ saved' = IF r.ok THEN [saved EXCEPT ![saving.pid] = saving.kg] ELSE saved
    /\ saving' = IdleSave
    /\ budget' = [budget EXCEPT !.faults = IF fault = "none" THEN @ ELSE @ - 1]
    /\ last' = [NoCall EXCEPT !.op = "save", !.manager = "updater", !.pid = saving.pid,
                  !.fault = fault, !.ok = r.ok, !.builder = TRUE]
    /\ UNCHANGED <<disk, mtime, head, importable>>
    /\ UNCHANGED <<watchVars, extVars, treeVars, analysis, git, threads, poolVars>>

\* project_memory.py:316-347 on another thread of the same manager.  While the
\* transaction of the save is open, the UPDATE of last_accessed at line 388
\* waits for the lock: either the wait times out (`busy`) and the except
\* clause returns None, or it outlasts the save.
ConcurrentLoad(use_cache, busy) ==
  \E r \in {LoadProject(store, mgr["updater"], ProjectRoot, use_cache, disk, mtime, importable)} :
  \E locked \in {saving.pc # "idle" /\ busy /\ r.src = "database"} :
    /\ busy => saving.pc # "idle"
    /\ store' = IF locked THEN store ELSE r.S
    /\ mgr' = [mgr EXCEPT !["updater"] = r.M]
    /\ last' = [NoCall EXCEPT !.op = "load", !.manager = "updater",
                  !.pid = GetProjectId(mgr["updater"], ProjectRoot),
                  !.use_cache = use_cache, !.after = saving.pc,
                  !.ok = (~locked /\ r.kg.tag = "graph"),
                  !.src = IF locked THEN "absent" ELSE r.src,
                  !.kg = IF locked THEN NoGraph ELSE r.kg]
    /\ UNCHANGED <<disk, mtime, head, importable, saved, budget>>
    /\ UNCHANGED <<watchVars, extVars, restVars>>

NextTxn ==
  \/ \E p \in Paths, c \in {"foobar", Absent} : WriteFile(p, c)
  \/ Expire
  \/ BeginSave
  \/ OpenSnapshot
  \/ DumpSnapshot
  \/ \E fault \in FaultChoices({"none", "commit"}) : CommitSave(fault)
  \/ \E use_cache, busy \in BOOLEAN : ConcurrentLoad(use_cache, busy)

SpecTxn == Init /\ [][NextTxn]_vars

\* C29: a load_project running while a save_project of the same identity
\* is under way returns the complete graph of the last completed save or
\* the complete graph being saved - never a snapshot whose transaction has
\* not committed, and never nothing when a graph had been saved before.
LoadSeesCommittedGraph ==
  (last.op = "load" /\ last.after \in {"begun", "opened", "dumped"})
  => /\ last.kg \in {saving.before, saving.kg}
     /\ last.src # "snapshot" \/ last.kg = saving.before
     /\ saving.before.tag = "graph" => last.kg.tag = "graph"

(***************************************************************************)
(* The manager instances of one process over the one storage directory:    *)
(* the updater, the branch manager and get_memory_manager() each construct *)
(* a ProjectMemoryManager of their own, with a memory cache of its own.    *)
(***************************************************************************)
\* ProjectMemoryManager.save_project of the analysed project through instance m
SaveVia(m) ==
  \E kg \in {AnalyzeProject(disk, mtime)} :
  \E r \in {SaveProject(store, mgr[m], kg, "none")} :
    /\ store' = r.S
    /\ mgr' = [mgr EXCEPT ![m] = r.M]
    /\ saved' = [saved EXCEPT ![GetProjectId(mgr[m], ProjectRoot)] = kg]
    /\ last' = [NoCall EXCEPT !.op = "save", !.manager = m,
                  !.pid = GetProjectId(mgr[m], ProjectRoot), !.ok = r.ok,
                  !.builder = TRUE]
    /\ UNCHANGED <<disk, mtime, head, importable, budget>>
    /\ UNCHANGED <<watchVars, extVars, restVars>>

\* ProjectMemoryManager.load_project through instance m
LoadVia(m, use_cache) ==
  \E r \in {LoadProject(store, mgr[m], ProjectRoot, use_cache, disk, mtime, importable)} :
    /\ store' = r.S
    /\ mgr' = [mgr EXCEPT ![m] = r.M]
    /\ last' = [NoCall EXCEPT !.op = "load", !.manager = m,
                  !.pid = GetProjectId(mgr[m], ProjectRoot),
                  !.use_cache = use_cache, !.ok = (r.kg.tag = "graph"),
                  !.src = r.src, !.kg = r.kg]
    /\ UNCHANGED <<disk, mtime, head, importable, saved, budget>>
    /\ UNCHANGED <<watchVars, extVars, restVars>>

NextShared ==
  \/ \E p \in Paths, c \in {"foobar", Absent} : WriteFile(p, c)
  \/ \E m \in Managers : SaveVia(m)
  \/ \E m \in Managers, use_cache \in BOOLEAN : LoadVia(m, use_cache)

SpecShared == Init /\ [][NextShared]_vars

\* C30: once save_project(g) has completed through any manager instance of
\* the process, a load_project of the same identity with use_cache=True
\* through any instance returns a graph with g's file and entity sets, not
\* an older graph still held in that instance's memory cache.  (Stated for
\* the deployments in which the rebuild from the rows can import its module.)
InstancesAgree ==
  (importable /\ last.op = "load" /\ last.use_cache /\ saved[last.pid].tag = "graph")
  => /\ last.kg.tag = "graph"
     /\ FileKeys(last.kg) = FileKeys(saved[last.pid])
     /\ last.kg.entities = saved[last.pid].entities

(***************************************************************************)
(* Re-analysis of files of a graph object already built: the graph A is    *)
(* the record analyze_project leaves (files and entities in kg, the        *)
(* counts of each FileNode in nodes, its risk_score in risk, the context). *)
(***************************************************************************)
\* the files `ps` are analysed again by _analyze_single_file: each gets a new
\* FileNode (risk_score 0.0), and _analyze_python_file sets the keys of the
\* entities it finds in self.entities; no key is removed
ReanalyzeFiles(A, ps, dir, counts, stamps) ==
  LET files == [p \in FileKeys(A.kg) \cup ps |->
                  IF p \in ps THEN AnalyzeSingleFile(dir, stamps, p) ELSE A.kg.files[p]]
  IN  [A EXCEPT
         !.kg = [A.kg EXCEPT
                   !.tag = "graph", !.project_root = ProjectRoot,
                   !.files = files,
                   !.entities = @ \cup {e \in EntityKeysOf(files) : e[1] \in ps}],
         !.nodes = [p \in FileKeys(A.kg) \cup ps |->
                      IF p \in ps THEN counts[p] ELSE A.nodes[p]],
         !.risk = [p \in FileKeys(A.kg) \cup ps |->
                     IF p \in ps THEN 0 ELSE A.risk[p]]]

\* project_mind.py analyze_changed_files
AnalyzeChangedFiles(A, changed_files, dir, counts, stamps) ==
  LET ps == {p \in changed_files : dir[p] # Absent /\ Suffix(p) \in ExtensionSet}
      B == ReanalyzeFiles(A, ps, dir, counts, stamps)
  IN  [B EXCEPT !.done = TRUE,
                !.kg.edges = BuildDependencyGraph(dir, B.kg.files, @),
                !.context = UpdateContextStatistics(B.nodes, B.risk)]

\* project_memory.py:516-523: the files of the graph that exist and are newer
ChangedSince(A, dir, stamps) ==
  {p \in FileKeys(A.kg) : dir[p] # Absent /\ stamps[p] > A.kg.files[p].last_modified}

\* project_memory.py update_project_incremental on the graph it loaded
UpdateProjectIncremental(A, dir, counts, stamps) ==
  LET ps == ChangedSince(A, dir, stamps)
      B == ReanalyzeFiles(A, ps, dir, counts, stamps)
  IN  IF ~A.done THEN AnalyzeProjectContext(dir, counts, stamps)
      ELSE IF ps = {} THEN A
      ELSE [B EXCEPT !.kg.edges = BuildDependencyGraph(dir, B.kg.files, @),
                     !.risk = CalculateRiskScores(B.nodes),
                     !.context = UpdateContextStatistics(B.nodes,
                                                         CalculateRiskScores(B.nodes))]

BuildOrder == <<"a.py", "b.py">>

BuildBatches == [BuildPaths -> {"none", "modified", "deleted"}] \ {[p \in BuildPaths |-> "none"]}

\* smart_incremental_update.py _process_file_changes on the graph it loaded:
\* the loop, _update_dependencies, and whether save_project is reached
ProcessChangesOnGraph(A, changes, dir) ==
  LET ap == ApplyChanges(A.kg, dir, changes, BuildOrder, 1)
  IN  [saved |-> ~UpdateDependenciesRaises(ap.kg, ap.updated_files),
       A |-> [A EXCEPT !.kg = ap.kg,
                       !.nodes = [p \in FileKeys(ap.kg) |-> A.nodes[p]],
                       !.risk = [p \in FileKeys(ap.kg) |-> A.risk[p]]]]

HighLines == [SmallFile EXCEPT !.line_count = LineLimit + 1]

OverLimits ==
  [size_bytes |-> SizeLimit + 1, line_count |-> LineLimit + 1,
   entities |-> EntityLimit + 1, imports |-> ImportLimit + 1]

ReworkMeasures == {SmallFile, HighLines, OverLimits}

InitRework ==
  /\ Constructed
  /\ tree = [p \in BuildPaths |-> IF p = "a.py" THEN "foobar" ELSE "from_a"]
  /\ measured = [p \in BuildPaths |-> SmallFile]

\* a file of the project is written (content c, counts m) or removed
EditTree(p, c, m) ==
  /\ budget.edits > 0
  /\ c \in ContentsOf(p) \cup {Absent}
  /\ ~(c = Absent /\ tree[p] = Absent)
  /\ c = Absent => m = measured[p]
  /\ tree' = [tree EXCEPT ![p] = c]
  /\ measured' = [measured EXCEPT ![p] = m]
  /\ tree_mtime' = [tree_mtime EXCEPT ![p] = @ + 1]
  /\ budget' = [budget EXCEPT !.edits = @ - 1]
  /\ last' = [NoCall EXCEPT !.op = "edit"]
  /\ UNCHANGED <<disk, mtime, head, importable, store, mgr, saved>>
  /\ UNCHANGED <<watchVars, extVars, analysis, git, threads, saving, poolVars>>

\* ProjectKnowledgeGraph(root).analyze_project(), then save_project
AnalyzeAndSave ==
  /\ budget.calls > 0
  /\ analysis' = AnalyzeProjectContext(tree, measured, tree_mtime)
  /\ budget' = Spend("none")
  /\ last' = [NoCall EXCEPT !.op = "analyze_tree", !.ok = TRUE]
  /\ UNCHANGED <<disk, mtime, head, importable, store, mgr, saved>>
  /\ UNCHANGED <<watchVars, extVars, treeVars, git, threads, saving, poolVars>>

\* knowledge_graph.analyze_changed_files(paths) on the graph object
ChangedFilesCall(paths) ==
  /\ budget.calls > 0
  /\ analysis' = AnalyzeChangedFiles(analysis, paths, tree, measured, tree_mtime)
  /\ budget' = Spend("none")
  /\ last' = [NoCall EXCEPT !.op = "changed_files", !.ok = TRUE,
                !.changes = [p \in BuildPaths |->
                               IF p \in paths /\ tree[p] # Absent THEN "modified" ELSE "none"]]
  /\ UNCHANGED <<disk, mtime, head, importable, store, mgr, saved>>
  /\ UNCHANGED <<watchVars, extVars, treeVars, git, threads, saving, poolVars>>

\* memory_manager.update_project_incremental(root); the graph is saved when
\* a change was detected or the project had to be analysed first
IncrementalCall ==
  /\ budget.calls > 0
  /\ analysis' = UpdateProjectIncremental(analysis, tree, measured, tree_mtime)
  /\ budget' = Spend("none")
  /\ last' = [NoCall EXCEPT !.op = "incremental",
                !.ok = (~analysis.done \/ ChangedSince(analysis, tree, tree_mtime) # {}),
                !.changes = [p \in BuildPaths |->
                               IF analysis.done /\ p \in ChangedSince(analysis, tree, tree_mtime)
                               THEN "modified" ELSE "none"]]
  /\ UNCHANGED <<disk, mtime, head, importable, store, mgr, saved>>
  /\ UNCHANGED <<watchVars, extVars, treeVars, git, threads, saving, poolVars>>

\* updater._process_file_changes(changes) on the graph load_project returned
BatchCall(changes) ==
  /\ budget.calls > 0
  /\ analysis.done
  /\ \E r \in {ProcessChangesOnGraph(analysis, changes, tree)} :
       /\ analysis' = r.A
       /\ last' = [NoCall EXCEPT !.op = "tree_batch", !.ok = r.saved, !.changes = changes]
  /\ budget' = Spend("none")
  /\ UNCHANGED <<disk, mtime, head, importable, store, mgr, saved>>
  /\ UNCHANGED <<watchVars, extVars, treeVars, git, threads, saving, poolVars>>

NextRework ==
  \/ \E p \in BuildPaths, c \in {"foo", "foobar", "from_a", Absent}, m \in ReworkMeasures :
       EditTree(p, c, m)
  \/ AnalyzeAndSave
  \/ \E paths \in SUBSET BuildPaths : ChangedFilesCall(paths)
  \/ IncrementalCall
  \/ \E changes \in BuildBatches : BatchCall(changes)

SpecRework == InitRework /\ [][NextRework]_vars

(***************************************************************************)
(* Properties of re-analysis (specification SpecRework).                   *)
(***************************************************************************)
\* the files the call that ended last analysed again
Reanalyzed == {p \in BuildPaths : last.changes[p] = "modified"}

\* C31: re-analysis of a file f (analyze_changed_files or
\* update_project_incremental) first invalidates f's old entities: afterwards
\* the entity keys whose owning file is f are exactly the entities found in
\* f's new content, so an entity removed from the source is gone from the
\* entity map.
ReanalysisReplacesEntities ==
  last.op \in {"changed_files", "incremental"}
  => \A f \in Reanalyzed :
       {e \in analysis.kg.entities : e[1] = f} = {<<f, n>> : n \in DeclaredNames(tree[f])}

\* C32: analyze_changed_files(paths) scores what it analysed: afterwards the
\* risk score of every re-analysed file is the risk function of its new
\* size, line count, entity count and import count, and the histogram counts
\* the file in the bucket of that score.
ChangedFilesAreScored ==
  last.op = "changed_files"
  => /\ \A f \in Reanalyzed : analysis.risk[f] = RiskScore(measured[f])
     /\ \A l \in Levels :
          analysis.context.complexity_distribution[l]
            >= Cardinality({f \in Reanalyzed : Level(RiskScore(measured[f])) = l})

\* C39: every graph that is persisted - after analyze_project,
\* update_project_incremental or a batch that added or removed files - has
\* statistics that match its content: total_files is the number of
\* FileNodes, total_lines the sum of their line counts, and the buckets of
\* the histogram sum to that number of files.
PersistedStatisticsMatch ==
  (last.op \in {"analyze_tree", "incremental", "tree_batch"} /\ last.ok)
  => /\ analysis.context.total_files = Cardinality(FileKeys(analysis.kg))
     /\ analysis.context.total_lines = TotalLines(analysis.nodes, DOMAIN analysis.nodes)
     /\ analysis.context.complexity_distribution["low"]
          + analysis.context.complexity_distribution["medium"]
          + analysis.context.complexity_distribution["high"]
          + analysis.context.complexity_distribution["extreme"]
          = Cardinality(FileKeys(analysis.kg))

(***************************************************************************)
(* Properties of the edges of the graphs the system hands out.             *)
(***************************************************************************)
ContainsEdgesTo(kg, e) ==
  {d \in kg.edges : d.relation_type = "contains" /\ d.to = EntityNodeId(e[1], e[2])}

WellContained(kg) ==
  \A e \in kg.entities :
    ContainsEdgesTo(kg, e)
      = {[from |-> FileNodeId(e[1]), to |-> EntityNodeId(e[1], e[2]),
          relation_type |-> "contains"]}

\* C33: in every graph obtainable from the system - built by analyze_project,
\* updated by a batch, or returned by load_project from the cache, the
\* snapshot or the relational store - every entity node has exactly one
\* incoming contains edge, and it comes from the file node of its owning file.
EveryEntityContained ==
  /\ \A i \in Ids : saved[i].tag = "graph" => WellContained(saved[i])
  /\ (last.op \in {"load", "batch"} /\ last.kg.tag = "graph") => WellContained(last.kg)

\* C34: after analyze_project(root) of the enhanced interface has returned
\* analyzed or up_to_date, a following get_project_summary(root) on the same
\* interface returns the summary of that analysis, not the error payload
\* saying that the project was never analysed.
SummaryFollowsAnalysis ==
  (last.op = "summary" /\ last.after \in {"analyzed", "up_to_date"})
  => /\ last.ok
     /\ FileKeys(last.kg) = FileKeys(saved[GenerateBranchProjectId(current_branch)])

(***************************************************************************)
(* The enhanced interface switching branches while the updater monitors.   *)
(***************************************************************************)
\* EnhancedProjectMindInterface.switch_branch: monitoring is stopped, the
\* branch manager switches and analyses, and monitoring is started again
\* only under `was_monitoring and result.get('status') == 'analyzed'`
InterfaceSwitchBranch(target, fault) ==
  \E st \in {StopMonitoringOf(updater, observers)} :
  \E r \in {SwitchToBranchAnalysis(store, mgr["branch"], current_branch, head, target,
                                    disk, mtime, importable, fault)} :
  \E rs \in {IF updater.monitoring /\ ~r.raised /\ r.status = "analyzed"
              THEN StartMonitoringOf(st.U, st.observers, watch_env)
              ELSE [U |-> st.U, observers |-> st.observers, raised |-> FALSE,
                    error |-> NoError]} :
      /\ budget.calls > 0
      /\ store' = r.S
      /\ mgr' = [mgr EXCEPT !["branch"] = r.M]
      /\ current_branch' = r.current_branch
      /\ head' = r.head
      /\ saved' = IF r.status = "analyzed"
                  THEN [saved EXCEPT ![GenerateBranchProjectId(target)] = r.kg] ELSE saved
      /\ updater' = rs.U
      /\ observers' = rs.observers
      /\ budget' = Spend(fault)
      /\ last' = [NoCall EXCEPT !.op = "interface_switch", !.manager = "branch",
                    !.target = target, !.fault = fault, !.raised = r.raised,
                    !.status = r.status, !.error = r.error, !.builder = r.builder,
                    !.ok = (r.status = "analyzed"), !.was = updater.monitoring,
                    !.monitoring_restarted = (updater.monitoring /\ r.status = "analyzed"
                                              /\ ~rs.raised)]
      /\ UNCHANGED <<disk, mtime, importable>>
      /\ UNCHANGED <<watch_env, writers, completed>>
      /\ UNCHANGED <<watchVars, restVars>>

NextSwitchLive ==
  \/ StartMonitoring
  \/ StopMonitoring
  \/ \E target \in Targets, fault \in FaultChoices({"none", "no_git", "checkout", "commit"}) :
       InterfaceSwitchBranch(target, fault)

SpecSwitchLive == Init /\ [][NextSwitchLive]_vars

\* C35: switch_branch preserves the monitoring state on failure: when
\* monitoring was active before the call and the switch does not end with
\* status analyzed (ref missing, checkout failure, git absent, failed
\* analysis), monitoring is active again when the call returns.
FailedSwitchKeepsMonitoring ==
  (last.op = "interface_switch" /\ last.was /\ last.status # "analyzed")
  => updater.monitoring

(***************************************************************************)
(* The watcher of a monitoring updater and its debounce timers, with       *)
(* stop_monitoring.  observer.stop() and observer.join() end the watcher   *)
(* thread; the threading.Timer armed by _queue_change is another thread,   *)
(* which stop_monitoring does not cancel.                                  *)
(***************************************************************************)
\* an event is delivered by the running watcher
MonitoredArrive(p, ct) ==
  /\ updater.monitoring
  /\ Arrive(p, ct)

\* stop_monitoring returns after join(): the watcher thread is not inside
\* _queue_change any more
StopAndJoin ==
  /\ watcher.pc = "idle"
  /\ StopMonitoring

NextStop ==
  \/ StartMonitoring
  \/ StopAndJoin
  \/ \E p \in WatchPaths, ct \in ChangeTypes : MonitoredArrive(p, ct)
  \/ StoreChange
  \/ CancelPending
  \/ ArmTimer
  \/ Elapse
  \/ \E t \in TimerIds : ProcessBatchChanges(t)

SpecStop == Init /\ [][NextStop]_vars

\* C36: once stop_monitoring has returned, no batch-processing pass is
\* started from events that were still pending in the debounce map until
\* monitoring is started again.
NoBatchAfterStop ==
  [][Len(delivered') > Len(delivered) => updater.monitoring]_vars


(***************************************************************************)
(* Batch passes as threads.  _process_batch_changes starts one thread per  *)
(* batch (lines 100-104) and returns; nothing joins the thread and         *)
(* _process_file_changes takes no lock, so the passes of two batches       *)
(* overlap.  A pass is two steps here: the load, and the loop with the     *)
(* save.  The graph a pass holds is the cache's object when load_project   *)
(* returned it from the cache or stored it there, and an object of its own *)
(* when load_project rebuilt it from the rows.                             *)
(***************************************************************************)
\* the passes that hold the cache's object get its content as their own when
\* the cache entry is replaced by another object
Detach(P, M, pid, except) ==
  [t \in Threads |->
     IF t # except /\ P[t].pc = "loaded" /\ P[t].shared
     THEN [P[t] EXCEPT !.kg = M.cache[pid], !.shared = FALSE] ELSE P[t]]

DeletedOnly == {c \in Batches : \A p \in Paths : c[p] \in {"none", "deleted"}}

\* smart_incremental_update.py:100-104 and 239-243: the thread starts and loads;
\* the watcher reports the deletion of a file that is gone
StartPass(t, changes) ==
  LET pid == GetProjectId(mgr["updater"], ProjectRoot)
      full == AnalyzeProject(disk, mtime)
  IN  /\ passes[t] = IdlePass
      /\ \A p \in Paths : changes[p] = "deleted" => disk[p] = Absent
      /\ \E ld \in {LoadProject(store, mgr["updater"], ProjectRoot, TRUE, disk, mtime,
                                importable)} :
         \E fsave \in {SaveProject(ld.S, ld.M, full, "none")} :
           IF ld.kg.tag # "graph"
           THEN /\ store' = fsave.S
                /\ mgr' = [mgr EXCEPT !["updater"] = fsave.M]
                /\ saved' = [saved EXCEPT ![pid] = full]
                /\ passes' = [Detach(passes, mgr["updater"], pid, t) EXCEPT
                                ![t] = [IdlePass EXCEPT !.changes = changes]]
                /\ last' = [NoCall EXCEPT !.op = "batch", !.manager = "updater",
                              !.pid = pid, !.ok = TRUE, !.status = "reanalysed",
                              !.src = ld.src, !.kg = full, !.changes = changes]
           ELSE /\ store' = ld.S
                /\ mgr' = [mgr EXCEPT !["updater"] = ld.M]
                /\ saved' = saved
                /\ passes' =
                     [(IF ld.src = "snapshot"
                       THEN Detach(passes, mgr["updater"], pid, t) ELSE passes) EXCEPT
                        ![t] = [pc |-> "loaded", changes |-> changes,
                                kg |-> IF ld.src = "database" THEN ld.kg ELSE NoGraph,
                                shared |-> ld.src # "database"]]
                /\ last' = [NoCall EXCEPT !.op = "load", !.manager = "updater",
                              !.pid = pid, !.use_cache = TRUE, !.ok = TRUE,
                              !.src = ld.src, !.kg = ld.kg, !.changes = changes]
      /\ UNCHANGED <<disk, mtime, head, importable, budget>>
      /\ UNCHANGED <<watchVars, extVars>>
      /\ UNCHANGED <<treeVars, analysis, git, threads, saving, callers, tasks>>

\* smart_incremental_update.py:245-270: the loop, _update_dependencies, the save
FinishPass(t) ==
  LET pid == GetProjectId(mgr["updater"], ProjectRoot)
  IN  /\ passes[t].pc = "loaded"
      /\ \E obj \in {IF passes[t].shared THEN mgr["updater"].cache[pid]
                     ELSE passes[t].kg} :
         \E ap \in {ApplyChanges(obj, disk, passes[t].changes, PathOrder, 1)} :
         \E M1 \in {IF passes[t].shared
                    THEN [mgr["updater"] EXCEPT !.cache[pid] = ap.kg]
                    ELSE mgr["updater"]} :
         \E sv \in {SaveProject(store, M1, ap.kg, "none")} :
           IF UpdateDependenciesRaises(ap.kg, ap.updated_files)
           THEN /\ store' = store
                /\ mgr' = [mgr EXCEPT !["updater"] = M1]
                /\ saved' = saved
                /\ passes' = [passes EXCEPT ![t] = [IdlePass EXCEPT
                                                      !.changes = passes[t].changes]]
                /\ last' = [NoCall EXCEPT !.op = "batch", !.manager = "updater",
                              !.pid = pid, !.ok = FALSE, !.status = "crashed",
                              !.kg = ap.kg, !.changes = passes[t].changes]
           ELSE /\ store' = sv.S
                /\ mgr' = [mgr EXCEPT !["updater"] = sv.M]
                /\ saved' = [saved EXCEPT ![pid] = ap.kg]
                /\ passes' =
                     [(IF passes[t].shared THEN passes
                       ELSE Detach(passes, mgr["updater"], pid, t)) EXCEPT
                        ![t] = [IdlePass EXCEPT !.changes = passes[t].changes]]
                /\ last' = [NoCall EXCEPT !.op = "batch", !.manager = "updater",
                              !.pid = pid, !.ok = TRUE, !.status = "saved",
                              !.kg = ap.kg, !.changes = passes[t].changes]
      /\ UNCHANGED <<disk, mtime, head, importable, budget>>
      /\ UNCHANGED <<watchVars, extVars>>
      /\ UNCHANGED <<treeVars, analysis, git, threads, saving, callers, tasks>>

\* the project is analysed before the watcher hands over its first batch
AnalyzeBeforeBatches ==
  /\ \A t \in Threads : passes[t] = IdlePass
  /\ FullReanalysis("none")

\* a file of the project is removed
RemoveFile(p) ==
  /\ disk[p] # Absent
  /\ disk' = [disk EXCEPT ![p] = Absent]
  /\ mtime' = [mtime EXCEPT ![p] = @ + 1]
  /\ last' = EnvCall(TRUE)
  /\ UNCHANGED <<head, importable, store, mgr, saved, budget>>
  /\ UNCHANGED <<watchVars, extVars, restVars>>

NextPasses ==
  \/ AnalyzeBeforeBatches
  \/ \E p \in Paths : RemoveFile(p)
  \/ Expire
  \/ \E t \in Threads, changes \in DeletedOnly : StartPass(t, changes)
  \/ \E t \in Threads : FinishPass(t)

SpecPasses == Init /\ [][NextPasses]_vars

\* the deletions of the batches handed over so far, of files that are gone
DeliveredDeletions ==
  {p \in Paths : disk[p] = Absent /\ \E t \in Threads : passes[t].changes[p] = "deleted"}

\* C37: at most one batch pass of the updater runs at a time, and once no pass
\* runs the persisted graph holds no file whose deletion a batch delivered
PassesAreSerial ==
  LET pid == GetProjectId(mgr["updater"], ProjectRoot)
  IN  /\ Cardinality({t \in Threads : passes[t].pc # "idle"}) <= 1
      /\ ((\A t \in Threads : passes[t].pc = "idle") /\ store.snap[pid].tag = "graph")
            => \A p \in DeliveredDeletions : p \notin DOMAIN store.snap[pid].files

(***************************************************************************)
(* start_monitoring and stop_monitoring called from several threads on one *)
(* updater.  Neither method takes a lock, so a thread may be preempted     *)
(* between the test of the flag and the statements that follow it.         *)
(***************************************************************************)
\* smart_incremental_update.py:329-331: the test of start_monitoring
BeginStartMonitoring(t) ==
  /\ callers[t].pc = "idle"
  /\ budget.calls > 0
  /\ budget' = Spend("none")
  /\ callers' = [callers EXCEPT ![t] =
                   IF AlreadyMonitoring(updater) THEN IdleCaller
                   ELSE [IdleCaller EXCEPT !.pc = "checked", !.op = "start"]]
  /\ last' = [NoCall EXCEPT !.op = "start", !.manager = "updater",
                !.was = updater.monitoring, !.ok = AlreadyMonitoring(updater)]
  /\ UNCHANGED <<disk, mtime, head, importable, store, mgr, saved>>
  /\ UNCHANGED <<updater, observers, watch_env, current_branch, writers, completed>>
  /\ UNCHANGED <<watchVars, treeVars, analysis, git, threads, saving, passes, tasks>>

\* lines 335-361: the loop over the candidates; the class of the candidate
\* that started is recorded inside the loop, RuntimeError leaves the call
StartObserver(t) ==
  /\ callers[t].pc = "checked"
  /\ \E r \in {TryCandidates(CandidateObservers(watch_env.flag), 1, observers,
                             watch_env, NoError)} :
       /\ observers' = r.observers
       /\ updater' = IF r.observer = 0 THEN updater
                     ELSE [updater EXCEPT !.observer_class = r.cls]
       /\ callers' = [callers EXCEPT ![t] =
                        IF r.observer = 0 THEN IdleCaller
                        ELSE [pc |-> "started", op |-> "start", observer |-> r.observer,
                              observer_class |-> r.cls]]
       /\ last' = [NoCall EXCEPT !.op = "start", !.manager = "updater",
                     !.raised = (r.observer = 0), !.error = r.last_error]
  /\ UNCHANGED <<disk, mtime, head, importable, store, mgr, saved, budget>>
  /\ UNCHANGED <<watch_env, current_branch, writers, completed>>
  /\ UNCHANGED <<watchVars, treeVars, analysis, git, threads, saving, passes, tasks>>

\* lines 362-363: self.observer = observer; self.monitoring = True
RecordObserver(t) ==
  /\ callers[t].pc = "started"
  /\ updater' = [updater EXCEPT !.observer = callers[t].observer, !.monitoring = TRUE]
  /\ callers' = [callers EXCEPT ![t] = IdleCaller]
  /\ last' = [NoCall EXCEPT !.op = "start", !.manager = "updater", !.ok = TRUE]
  /\ UNCHANGED <<disk, mtime, head, importable, store, mgr, saved, budget>>
  /\ UNCHANGED <<observers, watch_env, current_branch, writers, completed>>
  /\ UNCHANGED <<watchVars, treeVars, analysis, git, threads, saving, passes, tasks>>

\* lines 368-369: the test of stop_monitoring
BeginStopMonitoring(t) ==
  /\ callers[t].pc = "idle"
  /\ budget.calls > 0
  /\ budget' = Spend("none")
  /\ callers' = [callers EXCEPT ![t] =
                   IF ~updater.monitoring \/ updater.observer = 0 THEN IdleCaller
                   ELSE [IdleCaller EXCEPT !.pc = "stopping", !.op = "stop"]]
  /\ last' = [NoCall EXCEPT !.op = "stop", !.manager = "updater",
                !.was = updater.monitoring]
  /\ UNCHANGED <<disk, mtime, head, importable, store, mgr, saved>>
  /\ UNCHANGED <<updater, observers, watch_env, current_branch, writers, completed>>
  /\ UNCHANGED <<watchVars, treeVars, analysis, git, threads, saving, passes, tasks>>

\* lines 373-375: the watcher self.observer names now is stopped and joined,
\* then the flag is cleared
StopObserver(t) ==
  /\ callers[t].pc = "stopping"
  /\ observers' = [observers EXCEPT ![updater.observer].state = "stopped"]
  /\ updater' = [updater EXCEPT !.monitoring = FALSE]
  /\ callers' = [callers EXCEPT ![t] = IdleCaller]
  /\ last' = [NoCall EXCEPT !.op = "stop", !.manager = "updater", !.ok = TRUE]
  /\ UNCHANGED <<disk, mtime, head, importable, store, mgr, saved, budget>>
  /\ UNCHANGED <<watch_env, current_branch, writers, completed>>
  /\ UNCHANGED <<watchVars, treeVars, analysis, git, threads, saving, passes, tasks>>

NextCallers ==
  \/ \E e \in WatchEnvs : e.flag = watch_env.flag /\ SetWatchEnv(e)
  \/ \E t \in Threads : BeginStartMonitoring(t)
  \/ \E t \in Threads : StartObserver(t)
  \/ \E t \in Threads : RecordObserver(t)
  \/ \E t \in Threads : BeginStopMonitoring(t)
  \/ \E t \in Threads : StopObserver(t)

SpecCallers == Init /\ [][NextCallers]_vars

\* C38: at most one watcher of the updater runs, and when no call is under way
\* the monitoring flag is true exactly when the recorded watcher runs
OneWatcher ==
  /\ Cardinality(Running(observers)) <= 1
  /\ (\A t \in Threads : callers[t].pc = "idle")
       => (updater.monitoring <=>
             (updater.observer # 0 /\ observers[updater.observer].state = "running"))

(***************************************************************************)
(* The Task Registry.  A record is written by the worker thread that runs  *)
(* _runner, inside `with self._lock`, one attribute at a time;             *)
(* get_task_state takes the lock for the dictionary lookup only and reads  *)
(* the attributes of the record after it has released it.                  *)
(***************************************************************************)
\* what func(*args, **kwargs) does: it returns, raises an Exception, or raises
\* a BaseException that is no Exception (SystemExit, CancelledError)
Outcomes == {"returns", "Exception", "BaseException"}

Terminal == {"completed", "failed"}

\* task_registry.py:62-84: the record is made and _runner is handed to the
\* executor; the id is not yet in _tasks
Submit(i, outcome) ==
  /\ tasks.records[i] = NoRecord
  /\ \A j \in TaskIds : tasks.records[j] # NoRecord => j \in tasks.registered
  /\ tasks' = [tasks EXCEPT !.records[i] = [NoRecord EXCEPT !.status = "pending"],
                            !.runner[i] = "queued", !.outcome[i] = outcome]
  /\ UNCHANGED <<coreVars, watchVars, extVars>>
  /\ UNCHANGED <<treeVars, analysis, git, threads, saving, passes, callers>>

\* lines 86-89: the id is entered under the lock, then submit returns it
Register(i) ==
  /\ tasks.records[i] # NoRecord
  /\ i \notin tasks.registered
  /\ tasks.lock = 0
  /\ tasks' = [tasks EXCEPT !.registered = @ \cup {i}, !.returned = @ \cup {i}]
  /\ UNCHANGED <<coreVars, watchVars, extVars>>
  /\ UNCHANGED <<treeVars, analysis, git, threads, saving, passes, callers>>

\* the statements of _runner that enter `with self._lock`
Acquiring == {"queued", "returned", "raised"}

\* lines 65-81: one statement of _runner for task i
RunnerStep(T, i) ==
  LET pc == T.runner[i]
  IN  CASE pc = "queued" ->
             [T EXCEPT !.lock = i, !.records[i].status = "running", !.runner[i] = "line68"]
        [] pc = "line68" ->
             [T EXCEPT !.lock = 0, !.records[i].started_at = TRUE, !.runner[i] = "line70"]
        [] pc = "line70" ->
             [T EXCEPT !.runner[i] =
                CASE T.outcome[i] = "returns" -> "returned"
                  [] T.outcome[i] = "Exception" -> "raised"
                  [] OTHER -> "unwound"]
        [] pc = "returned" ->
             [T EXCEPT !.lock = i, !.records[i].result = TRUE, !.runner[i] = "line74"]
        [] pc = "line74" ->
             [T EXCEPT !.records[i].status = "completed", !.runner[i] = "line75"]
        [] pc = "line75" ->
             [T EXCEPT !.lock = 0, !.records[i].finished_at = TRUE, !.runner[i] = "done"]
        [] pc = "raised" ->
             [T EXCEPT !.lock = i, !.records[i].error_message = TRUE,
                       !.runner[i] = "line80"]
        [] pc = "line80" ->
             [T EXCEPT !.records[i].status = "failed", !.runner[i] = "line81"]
        [] pc = "line81" ->
             [T EXCEPT !.lock = 0, !.records[i].finished_at = TRUE, !.runner[i] = "done"]
        [] OTHER -> T

\* a worker thread of the executor runs the next statement of _runner
Runner(i) ==
  /\ tasks.runner[i] \notin {"none", "done", "unwound"}
  /\ tasks.runner[i] \in Acquiring => tasks.lock = 0
  /\ tasks' = RunnerStep(tasks, i)
  /\ UNCHANGED <<coreVars, watchVars, extVars>>
  /\ UNCHANGED <<treeVars, analysis, git, threads, saving, passes, callers>>

\* lines 100-110: the order in which the dictionary display reads the record
NextField(f) ==
  CASE f = "status" -> "started_at"
    [] f = "started_at" -> "finished_at"
    [] f = "finished_at" -> "result"
    [] f = "result" -> "error_message"
    [] OTHER -> "returned"

\* lines 94-98: the lookup under the lock; KeyError for an id not in _tasks
GetTaskState(i) ==
  /\ tasks.reader.pc \in {"idle", "returned"}
  /\ tasks.lock = 0
  /\ tasks' = [tasks EXCEPT !.reader =
                 IF i \in tasks.registered
                 THEN [pc |-> "status", task_id |-> i, snap |-> NoRecord]
                 ELSE [IdleReader EXCEPT !.task_id = i]]
  /\ UNCHANGED <<coreVars, watchVars, extVars>>
  /\ UNCHANGED <<treeVars, analysis, git, threads, saving, passes, callers>>

\* lines 100-110: one attribute of the record is read, without the lock
ReadField ==
  LET f == tasks.reader.pc
      rec == tasks.records[tasks.reader.task_id]
  IN  /\ f \notin {"idle", "returned"}
      /\ tasks' = [tasks EXCEPT !.reader.snap[f] = rec[f], !.reader.pc = NextField(f)]
      /\ UNCHANGED <<coreVars, watchVars, extVars>>
      /\ UNCHANGED <<treeVars, analysis, git, threads, saving, passes, callers>>

NextTasks ==
  \/ \E i \in TaskIds, outcome \in Outcomes : Submit(i, outcome)
  \/ \E i \in TaskIds : Register(i)
  \/ \E i \in TaskIds : Runner(i)
  \/ \E i \in TaskIds : GetTaskState(i)
  \/ ReadField

\* the submitting thread and the worker threads of the executor keep running
SpecTasks ==
  /\ Init
  /\ [][NextTasks]_vars
  /\ \A i \in TaskIds : WF_vars(Register(i)) /\ WF_vars(Runner(i))

\* what the claim says of one record or of one dictionary get_task_state returns
WellFormedTask(r) ==
  /\ r.finished_at <=> r.status \in Terminal
  /\ r.result => r.status = "completed"
  /\ r.error_message => r.status = "failed"

StatusMoves == {<<"none", "pending">>, <<"pending", "running">>,
                <<"running", "completed">>, <<"running", "failed">>}

\* the records themselves, whenever no worker is inside `with self._lock`
RecordsWellFormed ==
  tasks.lock = 0 => \A i \in TaskIds : WellFormedTask(tasks.records[i])

\* every dictionary get_task_state has returned
SnapshotsWellFormed ==
  tasks.reader.pc = "returned" => WellFormedTask(tasks.reader.snap)

\* the status of a record moves along pending, running, completed or failed
StatusMovesForward ==
  [][\A i \in TaskIds :
       tasks'.records[i].status # tasks.records[i].status
         => <<tasks.records[i].status, tasks'.records[i].status>> \in StatusMoves]_vars

\* a task whose function returned or raised ends completed or failed
TasksTerminate ==
  \A i \in TaskIds :
    (tasks.records[i].status # "none") ~> (tasks.records[i].status \in Terminal)

\* C40: the id submit returns is in the registry; the status moves pending,
\* running, then completed or failed, and stays; finished_at is set exactly
\* with a terminal status, a result only when completed, an error message
\* only when failed, in the records and in every dictionary get_task_state
\* returns; every submitted task reaches a terminal status
TaskLifecycle ==
  /\ [](tasks.returned \subseteq tasks.registered)
  /\ []RecordsWellFormed
  /\ []SnapshotsWellFormed
  /\ StatusMovesForward
  /\ TasksTerminate

=============================================================================
